---- MODULE Spec2Model ----
(***************************************************************************)
(* Model of the mirrord agent's TCP sniffer (mirrord/agent/src/sniffer.rs) *)
(* together with the clients that drive it through the command channel.   *)
(*                                                                         *)
(* The sniffer task owns port_subscriptions, sessions, client_txs and      *)
(* clients_closed.  One iteration of the select! loop of start() handles   *)
(* exactly one event (a command, a client closure, a packet, the           *)
(* cancellation) to completion: the handlers contain no await.             *)
(***************************************************************************)
EXTENDS Integers, Sequences, FiniteSets, TLC

(***************************************************************************)
(* Bounds of the model.                                                    *)
(***************************************************************************)
\* number of clients (TcpSnifferApi instances) that may ever connect
NumClients == 2
\* number of Subscribe and UnsubscribePort commands sent in one behaviour
MaxCommands == 2
\* number of packets of one behaviour that start a session or reach the
\* session they belong to
MaxPackets == 3
\* the same two numbers for the behaviours of SpecSubscriptions
MaxSubscriptionCommands == 3
MaxSubscriptionPackets == 1
\* the number of packets for the behaviours of SpecSniffing and SpecStream
MaxSniffingPackets == 2
MaxStreamPackets == 3
\* capacity of the command channel (mpsc::channel(1000) in start_sniffer)
CommandChannelCapacity == 2
\* capacity of a client's queue of new connections
\* (TcpSnifferApi::CONNECTION_CHANNEL_SIZE)
ConnectionChannelSize == 1
\* capacity of the broadcast channel of one session
\* (CONNECTION_DATA_CHANNEL_CAPACITY, 512 in the program)
ConnectionDataChannelCapacity == 2

\* the last id of FileManager::fds_iter (u64::MAX in the code)
MaxFd == 2
\* number of file requests the layer sends
MaxRequests == 4
\* the largest size of a regular file, in bytes
MaxFileSize == 2
\* number of symbolic links a path resolution follows before it gives up
MaxFollow == 2
\* number of requests that are sent to a file manager with few ids
MaxIdRequests == 5
\* number of requests that are sent to read and write files
MaxReadRequests == 4
\* the largest buffer of a Read, in bytes
MaxCount == 3
\* number of requests that are sent to list directories
MaxDirRequests == 4
\* the largest buffer of a GetDEnts64, in bytes
MaxBuffer == 16
\* the largest number of components of a path that is resolved
MaxComponents == 3
\* number of calls that are made on the nat table and on a chain of it
MaxChainSteps == 5
\* number of threads that share one IPTableChain
NumThreads == 2
\* number of calls the threads make on the shared IPTableChain
MaxCalls == 3
\* the largest number of rules of a chain of a nat table that is listed
MaxRules == 2
\* number of calls that are made on a SafeIpTables
MaxRedirectorCalls == 5
\* packets handled while the packets of unknown flows are observed
MaxObservedPackets == 1
\* commands sent and packets handled while the sniffer is being stopped
MaxShutdownCommands == 2
MaxShutdownPackets == 1
\* processes of the application: the first one and the forked ones
MaxProcesses == 3
\* calls of fork a process makes
MaxForks == 2
\* fds 1 .. MaxLayerFd are open in the application
MaxLayerFd == 2
\* the calls of IPTables within one SafeIpTables::create, of which one can
\* fail for a reason outside the table
MaxFailingCall == 7
\* the local fds of the process of the file detours, the calls of detours
\* in one behaviour, and the largest count a caller passes
MaxHookFd == 3
MaxHookCalls == 4
MaxHookCount == 2
\* the calls of open and of close that the threads make in one behaviour
MaxCloseCalls == 4
\* the processes that one process starts with exec
MaxSpawns == 2

ClientIds == 0 .. (NumClients - 1)
\* ports that are subscribed and that packets carry
Ports == {80, 81}
\* 1 stands for the remote peer, 2 for the impersonated pod
Addrs == {1, 2}

(***************************************************************************)
(* pnet::packet::tcp::TcpFlags, as bits of the u8 flags field.             *)
(***************************************************************************)
FIN == 1
SYN == 2
RST == 4
ACK == 16

\* 0 != (flags & mask), for a mask that is a union of the bits in bits
HasAny(flags, bits) == \E b \in bits : (flags \div b) % 2 = 1

\* the flag bytes the capture yields in this model
FlagChoices == {SYN, SYN + ACK, ACK, FIN + ACK, RST}

(***************************************************************************)
(* TcpSessionIdentifier                                                    *)
(***************************************************************************)
TcpSessionIdentifier ==
    [source_addr : Addrs, dest_addr : Addrs, source_port : Ports, dest_port : Ports]

\* the identifier of the opposite direction of the same flow
Reverse(x) ==
    [source_addr |-> x.dest_addr, dest_addr |-> x.source_addr,
     source_port |-> x.dest_port, dest_port |-> x.source_port]

\* impl PartialEq::eq with the ports compared in the same direction only
eq_NoReverse(self, other) ==
    /\ self.source_addr = other.source_addr
    /\ self.dest_addr = other.dest_addr
    /\ self.source_port = other.source_port
    /\ self.dest_port = other.dest_port

\* impl PartialEq for TcpSessionIdentifier
eq(self, other) ==
    \/ /\ self.source_addr = other.source_addr
       /\ self.dest_addr = other.dest_addr
       /\ self.source_port = other.source_port
       /\ self.dest_port = other.dest_port
    \/ /\ self.source_addr = other.dest_addr
       /\ self.dest_addr = other.source_addr
       /\ self.source_port = other.dest_port
       /\ self.dest_port = other.source_port

\* impl Hash::hash feeding the fields in declaration order, without sorting
hash_Unsorted(self) ==
    <<self.source_addr, self.dest_addr, self.source_port, self.dest_port>>

\* impl Hash for TcpSessionIdentifier: the sequence of values written to the
\* hasher; two identifiers hash equal when these sequences are equal
hash(self) ==
    (IF self.source_addr > self.dest_addr
        THEN <<self.source_addr, self.dest_addr>>
        ELSE <<self.dest_addr, self.source_addr>>)
    \o
    (IF self.source_port > self.dest_port
        THEN <<self.source_port, self.dest_port>>
        ELSE <<self.dest_port, self.source_port>>)

\* a variant of is_new_connection that looks at SYN only
is_new_connection_AnySyn(flags) == HasAny(flags, {SYN})

\* const fn is_new_connection
is_new_connection(flags) ==
    HasAny(flags, {SYN}) /\ ~HasAny(flags, {ACK, RST, FIN})

\* fn is_closed_connection
is_closed_connection(flags) == HasAny(flags, {FIN, RST})


(***************************************************************************)
(* TcpPacketData.bytes.  A payload is known by its kind and by its number  *)
(* among the payloads of its session, in the order in which the packets    *)
(* arrive, so that two payloads of one session are never confused.  An     *)
(* empty payload has number 0.                                             *)
(***************************************************************************)
ByteKinds == {"empty", "raw", "http1", "http2"}
EmptyBytes == [kind |-> "empty", no |-> 0]

\* Vec::is_empty
is_empty(bytes) == bytes.kind = "empty"

\* crate::http::HttpVersion::new: the HTTP version the bytes start with
HttpVersion_new(bytes) ==
    CASE bytes.kind = "http1" -> "V1"
      [] bytes.kind = "http2" -> "V2"
      [] OTHER -> "None"

\* treat_as_new_session looking at the flags only
treat_as_new_session_FlagsOnly(tcp_flags, bytes) == is_new_connection(tcp_flags)

\* TcpConnectionSniffer::treat_as_new_session
treat_as_new_session(tcp_flags, bytes) ==
    \/ is_new_connection(tcp_flags)
    \/ HttpVersion_new(bytes) \in {"V1", "V2"}

(***************************************************************************)
(* State                                                                   *)
(***************************************************************************)
VARIABLES
    \* the sniffer task: "running", or how start() returned
    status,
    \* mpsc channel of SnifferCommand, in sending order
    command_rx,
    \* Subscriptions<Port, ClientId>: topic -> set of clients
    port_subscriptions,
    \* TCPSessionMap: TcpSessionIdentifier -> index of its broadcast channel
    sessions,
    \* clients that have a Sender<SniffedConnection> in client_txs
    client_txs,
    \* clients that have a ClientClosed future in clients_closed
    clients_closed,
    \* the filter installed in tcp_capture
    filter,
    \* number of successful set_filter calls
    times_filter_changed,
    \* the broadcast channels ever created, by index
    channels,
    \* number of Subscribe / UnsubscribePort commands the clients still send
    commands_left,
    \* number of packets still to come that start a session or reach one
    packets_left,
    \* per client: "none", "alive" or "dropped" TcpSnifferApi
    api,
    \* per client: the mpsc queue of SniffedConnection
    queue,
    \* per client: connection id -> broadcast receiver
    connections,
    \* per client: TcpSnifferApi::next_connection_id
    next_connection_id,
    \* the last packet that was not ignored, with what handle_packet did with it
    last_packet,
    \* the last item a client took from the stream of one of its connections
    observed,
    \* FileManager::root_path, a path of the agent's host
    root_path,
    \* the symbolic links of the host's file system: location -> destination
    links,
    \* the sizes of the regular files of the host's file system, by location
    file_size,
    \* FileManager::open_files: id -> RemoteFile (a File with the offset of
    \* its open file description, or a Directory with its path)
    open_files,
    \* FileManager::dir_streams: id -> Enumerate<ReadDir>
    dir_streams,
    \* FileManager::getdents_streams: id -> Peekable<GetDEnts64Stream>
    getdents_streams,
    \* FileManager::fds_iter
    fds_iter,
    \* what the last call of handle_message returned: Err, Ok(None) or
    \* Ok(Some(response)) with the kind of the response, and for which request
    returned,
    \* the RemoteResult inside that response
    result,
    \* number of file requests still to come
    requests_left,
    \* the ids the responses of the manager carried as new, in order
    issued,
    \* the last call of resolve_path: its path and what it returned
    resolved,
    \* the nat table of the target's network namespace: chain -> its rules
    nat,
    \* the IPTableChain: whether it lives, how it was made, its chain_size,
\* and what its last method returned: Ok(n) as n, Ok(()) as 0, Err as -1
    chain,
    \* the nat table as it was before the IPTableChain was created
    nat_before,
    \* number of calls on the nat table and on the chain still to come
    chain_steps,
    \* per thread: where its call of add_rule or remove_rule stands
    calls,
    \* what the last call of list_mirrord_rules returned
    mirrord_rules,
    \* the SafeIpTables: its strategy, the chain_size of its chains, whether
    \* it is mounted, the ports it redirects, and the iptables commands it ran
    redirector,
    \* per process of the application: whether it runs, its global
    \* PROXY_CONNECTION, the connection objects in its memory, its fd tables
    \* OPEN_FILES and SOCKETS, and what its last call of fork returned
    processes,
    \* per thread of the first process: the detour it is in, where it
    \* stands in it, and the table locks it holds
    detours,
    \* what the owner of the sniffer task has done to stop it: whether the
    \* CancellationToken is cancelled, and whether every sender of the
    \* command channel is dropped
    signals,
    \* the file detours of one process of the application: the table of its
    \* open remote files (local fd to remote fd) and of its sockets, the fds
    \* the kernel has allocated to it, the files of the agent, what the last
    \* call of a detour did, and where each thread stands in close or open
    hooks

sniffer_vars ==
    <<status, command_rx, port_subscriptions, sessions, client_txs,
      clients_closed, filter, times_filter_changed>>
client_vars == <<api, queue, connections, next_connection_id>>
vars ==
    <<status, command_rx, port_subscriptions, sessions, client_txs,
      clients_closed, filter, times_filter_changed, channels,
      commands_left, packets_left, api, queue, connections, next_connection_id, last_packet,
      observed, root_path, links, file_size, open_files, dir_streams,
      getdents_streams, fds_iter, returned, result, requests_left, issued,
      resolved, nat, chain, nat_before, chain_steps, calls, mirrord_rules, redirector,
      processes, detours, signals, hooks>>

\* the state of the sniffer and of its clients
sniffer_side ==
    <<status, command_rx, port_subscriptions, sessions, client_txs,
      clients_closed, filter, times_filter_changed, channels,
      commands_left, packets_left, api, queue, connections, next_connection_id,
      last_packet, observed, signals>>
\* the state of the file manager and of the file system it works on
file_vars ==
    <<root_path, links, file_size, open_files, dir_streams, getdents_streams,
      fds_iter, returned, result, requests_left, issued>>
chain_vars == <<nat, chain, nat_before, chain_steps, calls>>
\* the state of the layer in the processes of the application
layer_vars == <<processes, detours, hooks>>
\* what a step of the sniffer or of its clients leaves alone
beside_sniffer ==
    <<file_vars, resolved, chain_vars, mirrord_rules, redirector, layer_vars,
      signals>>
\* what a step of the file manager leaves alone
beside_files ==
    <<sniffer_side, resolved, chain_vars, mirrord_rules, redirector, layer_vars>>
\* what a call on the nat table leaves alone
beside_chain ==
    <<sniffer_side, file_vars, resolved, mirrord_rules, redirector, layer_vars>>

\* the function f restricted to the set S
Restrict(f, S) == [x \in S |-> f[x]]
\* the empty map
EmptyMap == [x \in {} |-> 0]

\* the record of a handled packet: its destination port, the number of its
\* payload, whether it closes the session and whether it travels against the
\* direction of the session's key; the session's channel, the clients
\* try_send was called for and those it returned Ok for, how the data send
\* went and whether the entry left the map
NoPacket ==
    [kind |-> "none", port |-> 0, bytes |-> 0, closes |-> FALSE,
     reverse |-> FALSE, connection_id |-> 0, tried |-> {}, sent_to |-> {},
     log |-> "none", ret |-> FALSE]

\* what TcpSnifferApi::recv returned for an item of a connection's stream:
\* the message (Data or Close) with its connection id, and the level of the
\* log that came with it; or the packet the capture yielded: its destination
\* port, its flags, the HTTP version of its payload and whether its session
\* was in the map
NoEvent ==
    [client |-> 0, kind |-> "none", connection_id |-> 0, bytes |-> 0, log |-> "none",
     port |-> 0, flags |-> 0, http |-> "None", known |-> FALSE]

(***************************************************************************)
(* The file manager as constructed (mirrord/agent/src/file.rs)             *)
(*                                                                         *)
(* A path is the sequence of its components; the path of the host starts   *)
(* with the root directory "/", ".." is the parent directory.              *)
(***************************************************************************)
\* Option::None
None == "None"
\* the process ids of the targets
Pids == {"1"}

get_root_path_from_optional_pid(pid) ==
    IF pid = None THEN <<"/">> ELSE <<"/", "proc", pid, "root">>

\* Path::has_root
has_root(path) == path # <<>> /\ path[1] = "/"
\* Path::join
join(base, path) == IF has_root(path) THEN path ELSE base \o path

\* the file system of the target, relative to its root: two directories,
\* three regular files
TargetDirs == {<<>>, <<"d">>}
TargetFiles == {<<"f">>, <<"d", "x">>, <<"d", "long">>}
\* the directories and the regular files of the host when the root of the
\* target is root: the target's, and the directories that lead to root
Dirs(root) ==
    {join(root, d) : d \in TargetDirs} \cup {SubSeq(root, 1, n) : n \in 1 .. Len(root)}
Files(root) == {join(root, f) : f \in TargetFiles}
\* the sizes of the regular files when the manager starts
sizes(root) ==
    [f \in Files(root) |-> IF f[Len(f)] = "x" THEN 0 ELSE MaxFileSize]

\* RemoteResult: Ok with the fields of the response, or Err with the
\* ResponseError and the id it names, or the kind of its io::Error
NoResult ==
    [is |-> "none", id |-> 0, io |-> "none", fd |-> 0, amount |-> 0,
     bytes |-> 0, offset |-> 0, entries |-> <<>>]
RemoteOk == [NoResult EXCEPT !.is = "Ok"]
RemoteErr(error, id) == [NoResult EXCEPT !.is = error, !.id = id]

\* a FileRequest: its kind and the fields its kind has.  An Option of the
\* request is Some when has_fd or has_path says so
NoArgs ==
    [kind |-> "none", fd |-> 0, path |-> <<>>, n |-> 0, start_from |-> 0,
     has_fd |-> FALSE, has_path |-> FALSE, from |-> "Start"]

\* no request was handled yet
NoReturn == [ret |-> "none", kind |-> "none", request |-> NoArgs]

\* FileManager::new with Default::default
FileManager_new(pid) ==
    /\ root_path = get_root_path_from_optional_pid(pid)
    /\ open_files = EmptyMap
    /\ dir_streams = EmptyMap
    /\ getdents_streams = EmptyMap
    /\ fds_iter = [start |-> 0, end |-> MaxFd, exhausted |-> FALSE]
    /\ returned = NoReturn
    /\ result = NoResult
    /\ issued = <<>>

\* the file system of a target without symbolic links
PlainFileSystem ==
    /\ links = EmptyMap
    /\ file_size = sizes(root_path)

\* a file manager that gets no request
FilesIdle ==
    /\ FileManager_new(None)
    /\ PlainFileSystem
    /\ requests_left = 0

\* resolve_path was not called
NotResolved == [path |-> <<>>, ok |-> FALSE, out |-> <<>>]
\* list_mirrord_rules was not called
NotListed == [is |-> "none", rules |-> <<>>]

\* the built-in chain of the nat table that incoming packets traverse
PREROUTING == "PREROUTING"
\* the chain of the agent
IPTABLE_PREROUTING == "MIRRORD_INPUT"
IPTABLE_MESH == "MIRRORD_OUTPUT"
IPTABLE_STANDARD == "MIRRORD_STANDARD"
\* a chain of another program, whose name begins like a chain of the agent
OTHER_CHAIN == "MIRRORD_INPUT_OLD"
\* a nat table with its built-in chain and no rule
EmptyTable == [name \in {PREROUTING} |-> <<>>]
\* no IPTableChain was made
NoChain ==
    [is |-> "none", by |-> "none", chain_size |-> 0, inner_used |-> FALSE,
     ret |-> 0]

\* the threads that can share an IPTableChain
ThreadIds == 1 .. NumThreads
\* a thread that is in no method of the chain
NoCall == [pc |-> "idle", rule |-> "none", index |-> 0, ret |-> 0]

\* the token is not cancelled and the command channel has a sender
NoSignals == [cancelled |-> FALSE, closed |-> FALSE]

\* the environment of a process that was not started: the variables
\* MIRRORD_LAYER_TRACE_ONLY and MIRRORD_REMOTE_ENV_FETCHED (the empty string
\* for a variable that is not set) and the resolved configuration
NoEnv ==
    [MIRRORD_LAYER_TRACE_ONLY |-> "", MIRRORD_REMOTE_ENV_FETCHED |-> "",
     config |-> [features |-> {}, load_from_process |-> FALSE, unset |-> {}]]

\* the processes of the application: the first one, and the ones forked
ProcessIds == 1 .. MaxProcesses
\* a pid that is not in use yet
NoProcess ==
    [state |-> "none", PROXY_CONNECTION |-> 0, objects |-> <<>>,
     OPEN_FILES |-> {}, SOCKETS |-> {}, fs_active |-> FALSE,
     parent |-> 0, forks |-> 0, res |-> 0,
     env |-> NoEnv, load_type |-> "none", hooked |-> FALSE,
     hooked_with |-> {}, fetches |-> 0]
\* a thread that is in no detour
NoDetour == [pc |-> "idle", detour |-> "none", fd |-> 0, holds |-> {}]

\* no detour has run: what a call of a detour did, and the file detours of
\* a process whose layer has just started
NoHookCall ==
    [detour |-> "none", args |-> <<>>, original |-> <<>>, sent |-> <<>>,
     ret |-> 0]
NoHookThread == [pc |-> "idle", fd |-> 0, remote_fd |-> 0]
NoHooks ==
    [OPEN_FILES |-> <<>>, SOCKETS |-> {}, kernel |-> {}, remote_files |-> <<>>,
     calls |-> 0, last |-> NoHookCall, placeholders |-> <<>>, held |-> {},
     threads |-> [t \in ThreadIds |-> NoHookThread]]

\* no SafeIpTables was made
NoRedirector ==
    [is |-> "none", strategy |-> "none", preroute |-> 0, output |-> 0,
     mounted |-> FALSE, redirects |-> {}, log |-> <<>>,
     wrapped |-> FALSE, tried |-> <<>>, flush_connections |-> FALSE]

\* the layer is loaded into no process
LayerIdle ==
    /\ processes = [p \in ProcessIds |-> NoProcess]
    /\ detours = [t \in ThreadIds |-> NoDetour]
    /\ hooks = NoHooks

\* nobody touches the nat table
ChainIdle ==
    /\ nat = EmptyTable
    /\ chain = NoChain
    /\ nat_before = EmptyTable
    /\ chain_steps = 0
    /\ calls = [t \in ThreadIds |-> NoCall]
    /\ redirector = NoRedirector

\* what the sniffer starts beside
beside_sniffer_idle ==
    /\ signals = NoSignals
    /\ FilesIdle
    /\ resolved = NotResolved
    /\ mirrord_rules = NotListed
    /\ LayerIdle
    /\ ChainIdle

(***************************************************************************)
(* crate::util::Subscriptions                                              *)
(***************************************************************************)
\* Subscriptions::subscribe: ret is whether a new topic was added
subscribe(subs, client, topic) ==
    IF topic \in DOMAIN subs
        THEN [map |-> [subs EXCEPT ![topic] = @ \cup {client}], ret |-> FALSE]
        ELSE [map |-> [t \in DOMAIN subs \cup {topic} |->
                          IF t = topic THEN {client} ELSE subs[t]],
              ret |-> TRUE]

\* Subscriptions::unsubscribe: ret is whether a topic was removed
unsubscribe(subs, client, topic) ==
    IF topic \in DOMAIN subs
        THEN IF subs[topic] \ {client} = {}
                THEN [map |-> Restrict(subs, DOMAIN subs \ {topic}), ret |-> TRUE]
                ELSE [map |-> [subs EXCEPT ![topic] = @ \ {client}], ret |-> FALSE]
        ELSE [map |-> subs, ret |-> FALSE]

\* Subscriptions::remove_client: ret is whether any topic was removed
remove_client(subs, client) ==
    LET keep == {t \in DOMAIN subs : subs[t] \ {client} # {}}
    IN  [map |-> [t \in keep |-> subs[t] \ {client}],
         ret |-> keep # DOMAIN subs]

\* Subscriptions::get_subscribed_topics
get_subscribed_topics(subs) == DOMAIN subs

\* Subscriptions::get_topic_subscribers, with the caller's
\* .filter(|ids| !ids.is_empty()): {} stands for None
get_topic_subscribers(subs, topic) ==
    IF topic \in DOMAIN subs THEN subs[topic] ELSE {}

(***************************************************************************)
(* The packet filter                                                       *)
(***************************************************************************)
\* rawsocket::filter::build_drop_always
build_drop_always == [kind |-> "drop_always", ports |-> {}]
\* rawsocket::filter::build_tcp_port_filter
build_tcp_port_filter(ports) == [kind |-> "tcp_port", ports |-> ports]

\* the filter the capture starts with
initial_filter == build_drop_always

\* update_packet_filter without the empty case
update_packet_filter_NoDrop(subs) ==
    build_tcp_port_filter(get_subscribed_topics(subs))

\* TcpConnectionSniffer::update_packet_filter: the filter it hands to set_filter
update_packet_filter(subs) ==
    LET ports == get_subscribed_topics(subs)
    IN  IF ports = {} THEN build_drop_always ELSE build_tcp_port_filter(ports)

\* the same with the update done on every call
filter_update_Always(changed, subs) ==
    /\ filter' = update_packet_filter(subs)
    /\ times_filter_changed' = times_filter_changed + 1

\* `if <changed> { self.update_packet_filter()?; }` with set_filter returning Ok
filter_update(changed, subs) ==
    IF changed
        THEN /\ filter' = update_packet_filter(subs)
             /\ times_filter_changed' = times_filter_changed + 1
        ELSE UNCHANGED <<filter, times_filter_changed>>

\* start() returns: the sniffer is dropped with all it owns, which closes the
\* command channel, every client queue's sender and every broadcast sender
sniffer_exit(how) ==
    /\ status' = how
    /\ command_rx' = <<>>
    /\ port_subscriptions' = EmptyMap
    /\ sessions' = EmptyMap
    /\ client_txs' = {}
    /\ clients_closed' = {}
    /\ channels' = [i \in DOMAIN channels |-> [channels[i] EXCEPT !.closed = TRUE]]
    /\ UNCHANGED <<filter, times_filter_changed>>

(***************************************************************************)
(* Init: TcpConnectionSniffer::new, no client connected yet                *)
(***************************************************************************)
Constructed ==
    /\ status = "running"
    /\ command_rx = <<>>
    /\ port_subscriptions = EmptyMap
    /\ sessions = EmptyMap
    /\ client_txs = {}
    /\ clients_closed = {}
    /\ filter = initial_filter
    /\ times_filter_changed = 0
    /\ channels = <<>>
    /\ api = [c \in ClientIds |-> "none"]
    /\ queue = [c \in ClientIds |-> <<>>]
    /\ connections = [c \in ClientIds |-> EmptyMap]
    /\ next_connection_id = [c \in ClientIds |-> 0]
    /\ last_packet = NoPacket
    /\ observed = NoEvent
    /\ beside_sniffer_idle

\* the sniffer just constructed, with what its environment will still do
Init ==
    /\ Constructed
    /\ commands_left = MaxCommands
    /\ packets_left = MaxPackets

(***************************************************************************)
(* The clients' side of the command channel (TcpSnifferApi)                *)
(***************************************************************************)
Command(client_id, command, port) ==
    [client_id |-> client_id, command |-> command, port |-> port]

\* Sender::send on the command channel completes
can_send_command ==
    /\ status = "running"
    /\ Len(command_rx) < CommandChannelCapacity

\* TcpSnifferApi::new: registers the client with a NewClient command; client
\* ids are handed out in increasing order
api_new(c) ==
    /\ api[c] = "none"
    /\ \A d \in ClientIds : d < c => api[d] # "none"
    /\ can_send_command
    /\ api' = [api EXCEPT ![c] = "alive"]
    /\ command_rx' = Append(command_rx, Command(c, "NewClient", 0))
    /\ UNCHANGED last_packet
    /\ UNCHANGED <<status, port_subscriptions, sessions, client_txs, clients_closed,
                   filter, times_filter_changed, channels, commands_left, packets_left,
                   queue, connections, next_connection_id>>
    /\ UNCHANGED observed
    /\ UNCHANGED beside_sniffer

\* TcpSnifferApi::handle_client_message(LayerTcp::PortSubscribe(port))
api_port_subscribe(c, port) ==
    /\ api[c] = "alive"
    /\ can_send_command
    /\ commands_left > 0
    /\ commands_left' = commands_left - 1
    /\ command_rx' = Append(command_rx, Command(c, "Subscribe", port))
    /\ UNCHANGED last_packet
    /\ UNCHANGED <<status, port_subscriptions, sessions, client_txs, clients_closed,
                   filter, times_filter_changed, channels, packets_left, api, queue,
                   connections, next_connection_id>>
    /\ UNCHANGED observed
    /\ UNCHANGED beside_sniffer

\* TcpSnifferApi::handle_client_message(LayerTcp::PortUnsubscribe(port))
api_port_unsubscribe(c, port) ==
    /\ api[c] = "alive"
    /\ can_send_command
    /\ commands_left > 0
    /\ commands_left' = commands_left - 1
    /\ command_rx' = Append(command_rx, Command(c, "UnsubscribePort", port))
    /\ UNCHANGED last_packet
    /\ UNCHANGED <<status, port_subscriptions, sessions, client_txs, clients_closed,
                   filter, times_filter_changed, channels, packets_left, api, queue,
                   connections, next_connection_id>>
    /\ UNCHANGED observed
    /\ UNCHANGED beside_sniffer

\* the client drops its TcpSnifferApi: the queue's receiver is dropped with the
\* connections waiting in it, and so is every broadcast receiver it holds
api_drop(c) ==
    /\ api[c] = "alive"
    /\ api' = [api EXCEPT ![c] = "dropped"]
    /\ queue' = [queue EXCEPT ![c] = <<>>]
    /\ connections' = [connections EXCEPT ![c] = EmptyMap]
    /\ UNCHANGED last_packet
    /\ UNCHANGED <<status, command_rx, port_subscriptions, sessions, client_txs,
                   clients_closed, filter, times_filter_changed, channels,
                   commands_left, packets_left, next_connection_id>>
    /\ UNCHANGED observed
    /\ UNCHANGED beside_sniffer

(***************************************************************************)
(* TcpConnectionSniffer: commands and client closures                      *)
(***************************************************************************)
\* handle_new_client
handle_new_client(client_id) ==
    /\ client_txs' = client_txs \cup {client_id}
    /\ clients_closed' = clients_closed \cup {client_id}
    /\ UNCHANGED last_packet
    /\ UNCHANGED <<status, port_subscriptions, sessions, filter,
                   times_filter_changed, channels>>

\* handle_command, SnifferCommandInner::Subscribe(port, tx)
handle_subscribe(client_id, port) ==
    LET r == subscribe(port_subscriptions, client_id, port)
    IN  \/ /\ port_subscriptions' = r.map
           /\ filter_update(r.ret, r.map)
           /\ UNCHANGED last_packet
           /\ command_rx' = Tail(command_rx)
           /\ UNCHANGED <<status, sessions, client_txs, clients_closed, channels>>
        \/ \* set_filter fails and the error leaves start()
           /\ r.ret
           /\ sniffer_exit("failed")
           /\ UNCHANGED last_packet

\* handle_command, SnifferCommandInner::UnsubscribePort(port)
handle_unsubscribe(client_id, port) ==
    LET r == unsubscribe(port_subscriptions, client_id, port)
    IN  \/ /\ port_subscriptions' = r.map
           /\ filter_update(r.ret, r.map)
           /\ UNCHANGED last_packet
           /\ command_rx' = Tail(command_rx)
           /\ UNCHANGED <<status, sessions, client_txs, clients_closed, channels>>
        \/ /\ r.ret
           /\ sniffer_exit("failed")
           /\ UNCHANGED last_packet

\* start(): command = self.command_rx.recv() => self.handle_command(command)?
handle_command ==
    /\ status = "running"
    /\ command_rx # <<>>
    /\ LET command == Head(command_rx)
       IN  CASE command.command = "NewClient" ->
                  /\ handle_new_client(command.client_id)
                  /\ command_rx' = Tail(command_rx)
             [] command.command = "Subscribe" ->
                  handle_subscribe(command.client_id, command.port)
             [] command.command = "UnsubscribePort" ->
                  handle_unsubscribe(command.client_id, command.port)
    /\ UNCHANGED <<commands_left, packets_left, api, queue, connections,
                   next_connection_id>>
    /\ UNCHANGED observed
    /\ UNCHANGED beside_sniffer

\* start(): Some(client_id) = self.clients_closed.next() =>
\*          self.handle_client_closed(client_id)?
handle_client_closed(client_id) ==
    /\ status = "running"
    /\ client_id \in clients_closed
    /\ api[client_id] = "dropped"
    /\ LET r == remove_client(port_subscriptions, client_id)
       IN  \/ /\ client_txs' = client_txs \ {client_id}
              /\ clients_closed' = clients_closed \ {client_id}
              /\ port_subscriptions' = r.map
              /\ filter_update(r.ret, r.map)
              /\ UNCHANGED last_packet
              /\ UNCHANGED <<status, command_rx, sessions, channels>>
           \/ /\ r.ret
              /\ sniffer_exit("failed")
              /\ UNCHANGED last_packet
    /\ UNCHANGED <<commands_left, packets_left, api, queue, connections,
                   next_connection_id>>
    /\ UNCHANGED observed
    /\ UNCHANGED beside_sniffer


(***************************************************************************)
(* tokio::sync::broadcast, as far as the sniffer and its clients use it.   *)
(* A channel keeps the last ConnectionDataChannelCapacity values; sent is  *)
(* the number of values ever sent, closed tells that the Sender is         *)
(* dropped.  A receiver is a cursor: the number of values sent before the  *)
(* one it reads next.  The value kept for a payload is its number.         *)
(***************************************************************************)
\* broadcast::channel(Self::CONNECTION_DATA_CHANNEL_CAPACITY)
broadcast_channel == [buf |-> <<>>, sent |-> 0, closed |-> FALSE]

\* the last n elements of the sequence s
LastN(s, n) == IF Len(s) <= n THEN s ELSE SubSeq(s, Len(s) - n + 1, Len(s))

\* broadcast::Sender::send with at least one receiver alive
broadcast_send(chan, value) ==
    [chan EXCEPT !.buf = LastN(Append(@, value), ConnectionDataChannelCapacity),
                 !.sent = @ + 1]

\* dropping the broadcast::Sender
broadcast_close(chan) == [chan EXCEPT !.closed = TRUE]

\* some client holds a receiver of channel ch, in its queue q[c] of connections
\* not yet picked up or among its picked up connections conns[c]
has_receiver(ch, q, conns) ==
    \E c \in ClientIds :
        \/ \E i \in 1 .. Len(q[c]) : q[c][i].chan = ch
        \/ \E id \in DOMAIN conns[c] : conns[c][id].chan = ch

(***************************************************************************)
(* TcpConnectionSniffer::handle_packet                                     *)
(***************************************************************************)
\* self.sessions.entry(identifier): the keys of the map that hash like
\* identifier and are equal to it; empty for Entry::Vacant
entry(map, identifier) ==
    {k \in DOMAIN map : hash(k) = hash(identifier) /\ eq(k, identifier)}

\* Sender::try_send on the queue of client c holding q
try_send(c, q) ==
    IF api[c] # "alive" THEN "Closed"
    ELSE IF Len(q) >= ConnectionChannelSize THEN "Full"
    ELSE "Ok"

\* the notification loop sending to every registered client, subscribed or not
notified_AllClients(client_ids) ==
    {c \in client_txs : try_send(c, queue[c]) = "Ok"}

\* the notification loop giving up at the first client whose queue is full
notified_StopAtFull(client_ids) ==
    {c \in client_ids :
        /\ c \in client_txs
        /\ try_send(c, queue[c]) = "Ok"
        /\ \A d \in client_ids : d \in client_txs => try_send(d, queue[d]) # "Full"}

\* `for client_id in client_ids { ... client_tx.try_send(connection) ... }`:
\* the clients whose queue takes the SniffedConnection
notified(client_ids) ==
    {c \in client_ids : c \in client_txs /\ try_send(c, queue[c]) = "Ok"}

\* the data send attempted for every packet, empty or not
data_send_Always(bytes, receivers) ==
    IF receivers THEN "sent" ELSE "failed"

\* `!tcp_packet.bytes.is_empty() && data_tx.get().send(tcp_packet.bytes).is_err()`:
\* whether the payload is sent, and how send returns
data_send(bytes, receivers) ==
    IF is_empty(bytes) THEN "skipped"
    ELSE IF receivers THEN "sent"
    ELSE "failed"

\* the entry kept when the send finds no receiver
entry_removed_OnCloseOnly(outcome, flags) == is_closed_connection(flags)

\* the entry kept when the packet closes the connection
entry_removed_OnDeadOnly(outcome, flags) == outcome = "failed"

\* `data_tx.remove()` is reached: the send failed or the packet closes the session
entry_removed(outcome, flags) ==
    outcome = "failed" \/ is_closed_connection(flags)

\* the sender dropped before the payload of the closing packet is sent
channel_after_RemoveFirst(chan, bytes, outcome, removed) ==
    IF removed THEN broadcast_close(chan)
    ELSE IF outcome = "sent" THEN broadcast_send(chan, bytes.no)
    ELSE chan

\* the session's channel after the packet: the payload is sent first, the
\* sender is dropped with the entry afterwards
channel_after(chan, bytes, outcome, removed) ==
    LET sent == IF outcome = "sent" THEN broadcast_send(chan, bytes.no) ELSE chan
    IN  IF removed THEN broadcast_close(sent) ELSE sent

\* the packet is dropped at one of the two early returns of Entry::Vacant
packet_ignored(identifier, tcp_packet) ==
    /\ entry(sessions, identifier) = {}
    /\ \/ ~treat_as_new_session(tcp_packet.flags, tcp_packet.bytes)
       \/ get_topic_subscribers(port_subscriptions, identifier.dest_port) = {}

handle_packet(identifier, tcp_packet) ==
    LET occupied == entry(sessions, identifier)
        is_new == occupied = {}
        client_ids == get_topic_subscribers(port_subscriptions, identifier.dest_port)
        key == IF is_new THEN identifier ELSE CHOOSE k \in occupied : TRUE
        ch == IF is_new THEN Len(channels) + 1 ELSE sessions[key]
        data_tx == IF is_new THEN broadcast_channel ELSE channels[ch]
        connection == [session_id |-> identifier, chan |-> ch, next |-> 0, last |-> 0]
        tried == IF is_new THEN client_ids \cap client_txs ELSE {}
        sent_to == IF is_new THEN notified(client_ids) ELSE {}
        queue1 == [c \in ClientIds |->
                      IF c \in sent_to THEN Append(queue[c], connection) ELSE queue[c]]
        outcome == data_send(tcp_packet.bytes, has_receiver(ch, queue1, connections))
        removed == entry_removed(outcome, tcp_packet.flags)
        data_tx1 == channel_after(data_tx, tcp_packet.bytes, outcome, removed)
    IN  IF packet_ignored(identifier, tcp_packet)
        THEN UNCHANGED <<sessions, channels, queue, last_packet>>
        ELSE /\ sessions' =
                    IF removed THEN Restrict(sessions, DOMAIN sessions \ {key})
                    ELSE IF is_new
                        THEN [k \in DOMAIN sessions \cup {key} |->
                                 IF k = key THEN ch ELSE sessions[k]]
                    ELSE sessions
             /\ channels' =
                    IF is_new THEN Append(channels, data_tx1)
                    ELSE [channels EXCEPT ![ch] = data_tx1]
             /\ queue' = queue1
             /\ last_packet' = [NoPacket EXCEPT
                          !.kind = IF is_new THEN "NewSession" ELSE "Data",
                          !.port = identifier.dest_port,
                          !.connection_id = ch,
                          !.tried = tried,
                          !.sent_to = sent_to,
                          !.bytes = tcp_packet.bytes.no,
                          !.closes = is_closed_connection(tcp_packet.flags),
                          !.reverse = identifier # key,
                          !.ret = removed,
                          !.log = outcome]

\* the identifiers of the packets the capture yields: both directions of the
\* flows between the remote peer and the pod
PacketIds ==
    {x \in TcpSessionIdentifier :
        x.source_addr # x.dest_addr /\ x.source_port # x.dest_port}

\* the payload of kind kind that a packet with identifier carries: it is
\* numbered after the payloads already sent to the session it belongs to
payload(identifier, kind) ==
    LET occupied == entry(sessions, identifier)
    IN  IF kind = "empty" THEN EmptyBytes
        ELSE [kind |-> kind,
              no |-> IF occupied = {} THEN 1
                     ELSE channels[sessions[CHOOSE k \in occupied : TRUE]].sent + 1]

\* start(): result = self.tcp_capture.next() => self.handle_packet(..)?
\* for the packet with this identifier, these flags and a payload of this kind
capture(identifier, flags, kind) ==
    LET tcp_packet == [flags |-> flags, bytes |-> payload(identifier, kind)]
    IN  /\ status = "running"
        /\ packet_ignored(identifier, tcp_packet) \/ packets_left > 0
        /\ handle_packet(identifier, tcp_packet)
        /\ IF packet_ignored(identifier, tcp_packet)
              THEN UNCHANGED packets_left
              ELSE packets_left' = packets_left - 1
        /\ UNCHANGED <<status, command_rx, port_subscriptions, client_txs,
                       clients_closed, filter, times_filter_changed,
                       commands_left, api, connections, next_connection_id>>
        /\ UNCHANGED observed
        /\ UNCHANGED beside_sniffer

\* the capture yields any packet
capture_packet ==
    \E identifier \in PacketIds, flags \in FlagChoices, kind \in ByteKinds :
        capture(identifier, flags, kind)

\* start(): tcp_capture.next() yields an error, `result?` leaves the loop
capture_failed ==
    /\ status = "running"
    /\ sniffer_exit("failed")
    /\ UNCHANGED last_packet
    /\ UNCHANGED <<commands_left, packets_left, api, queue, connections, next_connection_id>>
    /\ UNCHANGED observed
    /\ UNCHANGED beside_sniffer

\* start(): _ = cancel_token.cancelled() => break.  The token is cancelled by
\* its owner at any time; until the loop takes this branch the sniffer behaves
\* as before the cancellation
start_cancelled ==
    /\ status = "running"
    /\ sniffer_exit("stopped")
    /\ UNCHANGED last_packet
    /\ UNCHANGED <<commands_left, packets_left, api, queue, connections, next_connection_id>>
    /\ UNCHANGED observed
    /\ UNCHANGED beside_sniffer

(***************************************************************************)
(* TcpSnifferApi::recv: what a client observes                             *)
(***************************************************************************)
\* the id taken from the index of the session's channel, fixed on arrival
new_connection_id_OnArrival(c, conn) == conn.chan - 1

\* `let id = self.next_connection_id; self.next_connection_id += 1;`
new_connection_id(c, conn) == next_connection_id[c]

\* the next connection is taken from the queue and gets the next id
api_recv_connection(c) ==
    /\ api[c] = "alive"
    /\ queue[c] # <<>>
    /\ LET conn == Head(queue[c])
           id == new_connection_id(c, conn)
       IN  /\ queue' = [queue EXCEPT ![c] = Tail(@)]
           /\ next_connection_id' = [next_connection_id EXCEPT ![c] = @ + 1]
           /\ connections' =
                  [connections EXCEPT ![c] =
                      [i \in DOMAIN @ \cup {id} |-> IF i = id THEN conn ELSE @[i]]]
           /\ UNCHANGED last_packet
    /\ UNCHANGED <<status, command_rx, port_subscriptions, sessions, client_txs,
                   clients_closed, filter, times_filter_changed, channels, commands_left, packets_left, api>>
    /\ UNCHANGED observed
    /\ UNCHANGED beside_sniffer

\* a receiver that lagged resumes at the oldest payload the channel retains
after_lag_Resume(c, id, oldest) ==
    /\ connections' = [connections EXCEPT ![c][id].next = oldest]
    /\ UNCHANGED observed

\* a receiver that lagged: the stream of the connection ends, and recv
\* returns Close for the connection with a log of level Error
after_lag(c, id, oldest) ==
    /\ connections' = [connections EXCEPT ![c] = Restrict(@, DOMAIN @ \ {id})]
    /\ observed' = [NoEvent EXCEPT !.client = c, !.kind = "Close",
                                   !.connection_id = id, !.log = "error"]

\* the stream of connection id yields its next item: a payload, a lag error
\* or the end of the stream; the last two end the connection with a Close
api_recv_data(c, id) ==
    /\ api[c] = "alive"
    /\ id \in DOMAIN connections[c]
    /\ LET rx == connections[c][id]
           chan == channels[rx.chan]
           oldest == chan.sent - Len(chan.buf)
       IN  \/ /\ rx.next < oldest
              /\ after_lag(c, id, oldest)
              /\ UNCHANGED last_packet
           \/ /\ rx.next >= oldest
              /\ rx.next < chan.sent
              /\ LET bytes == chan.buf[rx.next - oldest + 1]
                 IN  /\ connections' =
                            [connections EXCEPT ![c][id].next = @ + 1,
                                                ![c][id].last = bytes]
                     /\ observed' = [NoEvent EXCEPT !.client = c, !.kind = "Data",
                                                    !.connection_id = id,
                                                    !.bytes = bytes]
                     /\ UNCHANGED last_packet
           \/ /\ rx.next = chan.sent
              /\ chan.closed
              /\ connections' = [connections EXCEPT ![c] = Restrict(@, DOMAIN @ \ {id})]
              /\ observed' = [NoEvent EXCEPT !.client = c, !.kind = "Close",
                                             !.connection_id = id]
              /\ UNCHANGED last_packet
    /\ UNCHANGED <<status, command_rx, port_subscriptions, sessions, client_txs,
                   clients_closed, filter, times_filter_changed, channels, commands_left, packets_left, api, queue, next_connection_id>>
    /\ UNCHANGED beside_sniffer

(***************************************************************************)
(* The specification                                                       *)
(***************************************************************************)
Next ==
    \/ \E c \in ClientIds : api_new(c)
    \/ \E c \in ClientIds, port \in Ports : api_port_subscribe(c, port)
    \/ \E c \in ClientIds, port \in Ports : api_port_unsubscribe(c, port)
    \/ \E c \in ClientIds : api_drop(c)
    \/ \E c \in ClientIds : api_recv_connection(c)
    \/ \E c \in ClientIds, id \in 0 .. MaxPackets : api_recv_data(c, id)
    \/ handle_command
    \/ \E c \in ClientIds : handle_client_closed(c)
    \/ capture_packet
    \/ capture_failed
    \/ start_cancelled

Spec == Init /\ [][Next]_vars

(***************************************************************************)
(* Subscriptions: the clients register, subscribe, unsubscribe and leave   *)
(* while packets arrive; no client reads what it is sent.                  *)
(***************************************************************************)
InitSubscriptions ==
    /\ Constructed
    /\ commands_left = MaxSubscriptionCommands
    /\ packets_left = MaxSubscriptionPackets

NextSubscriptions ==
    \/ \E c \in ClientIds : api_new(c)
    \/ \E c \in ClientIds, port \in Ports : api_port_subscribe(c, port)
    \/ \E c \in ClientIds, port \in Ports : api_port_unsubscribe(c, port)
    \/ \E c \in ClientIds : api_drop(c)
    \/ handle_command
    \/ \E c \in ClientIds : handle_client_closed(c)
    \/ capture_packet
    \/ capture_failed
    \/ start_cancelled

SpecSubscriptions == InitSubscriptions /\ [][NextSubscriptions]_vars

(***************************************************************************)
(* Sniffing: every client has registered and subscribed its ports, and all *)
(* its commands are handled; then packets arrive while the clients read    *)
(* and leave.                                                              *)
(***************************************************************************)
\* the subscription table after each client c subscribed the ports of[c]
subscribed(of) ==
    [p \in {q \in Ports : \E c \in ClientIds : q \in of[c]} |->
        {c \in ClientIds : p \in of[c]}]

Subscribed(of, packets) ==
        /\ status = "running"
        /\ command_rx = <<>>
        /\ port_subscriptions = subscribed(of)
        /\ sessions = EmptyMap
        /\ client_txs = {c \in ClientIds : of[c] # {}}
        /\ clients_closed = {c \in ClientIds : of[c] # {}}
        /\ filter = update_packet_filter(subscribed(of))
        /\ times_filter_changed = Cardinality(DOMAIN subscribed(of))
        /\ channels = <<>>
        /\ api = [c \in ClientIds |-> IF of[c] # {} THEN "alive" ELSE "none"]
        /\ queue = [c \in ClientIds |-> <<>>]
        /\ connections = [c \in ClientIds |-> EmptyMap]
        /\ next_connection_id = [c \in ClientIds |-> 0]
        /\ last_packet = NoPacket
        /\ observed = NoEvent
        /\ beside_sniffer_idle
        /\ commands_left = 0
        /\ packets_left = packets

InitSniffing ==
    \E of \in [ClientIds -> SUBSET Ports] : Subscribed(of, MaxSniffingPackets)

NextSniffing ==
    \/ \E c \in ClientIds : api_drop(c)
    \/ \E c \in ClientIds : api_recv_connection(c)
    \/ \E c \in ClientIds : handle_client_closed(c)
    \/ capture_packet

SpecSniffing == InitSniffing /\ [][NextSniffing]_vars

(***************************************************************************)
(* Stream: one client has subscribed port 80; a longer run of packets.     *)
(***************************************************************************)
InitStream ==
    Subscribed([c \in ClientIds |-> IF c = 0 THEN {80} ELSE {}], MaxStreamPackets)

NextStream ==
    \/ \E c \in ClientIds : api_drop(c)
    \/ \E c \in ClientIds : api_recv_connection(c)
    \/ \E c \in ClientIds, id \in 0 .. MaxStreamPackets : api_recv_data(c, id)
    \/ \E c \in ClientIds : handle_client_closed(c)
    \/ capture_packet

SpecStream == InitStream /\ [][NextStream]_vars

\* the select! loop of start() polls the client-closed futures in every
\* iteration, so a closure that is ready is handled; nothing makes the
\* network deliver another packet or a client read
FairStream ==
    SpecStream /\ \A c \in ClientIds : WF_vars(handle_client_closed(c))

(***************************************************************************)
(* Properties                                                              *)
(***************************************************************************)
\* the ports that have at least one subscriber in the port-subscription table
SubscribedPorts ==
    {p \in Ports : p \in DOMAIN port_subscriptions /\ port_subscriptions[p] # {}}

\* the clients subscribed to port p in the port-subscription table
SubscribersOf(p) ==
    {c \in ClientIds : p \in DOMAIN port_subscriptions /\ c \in port_subscriptions[p]}

\* C1: while the sniffer runs, between any two events it handles, the port
\* set of the installed filter is the set of ports with at least one
\* subscriber, and the filter is the drop-always filter exactly when that
\* set is empty.  Every step is one whole handler, so the filter is up to
\* date before the next command is taken.
C1_FilterMatchesSubscriptions ==
    status = "running" =>
        /\ filter.ports = SubscribedPorts
        /\ filter.kind = (IF SubscribedPorts = {} THEN "drop_always" ELSE "tcp_port")

\* a client subscribed, the filter followed, the client left and the closure
\* brought the drop-always filter back
C1_Witness ==
    /\ status = "running"
    /\ times_filter_changed = 2
    /\ filter = build_drop_always
    /\ api[0] = "dropped"
    /\ 0 \notin clients_closed
    /\ command_rx = <<>>

\* C2: every event the sniffer handles and survives reprograms the filter
\* exactly once when it changes the set of subscribed ports and not at all
\* when it leaves that set as it was.
C2_ReprogramOnlyOnChange ==
    [][(status = "running" /\ status' = "running") =>
          times_filter_changed' =
              times_filter_changed + (IF SubscribedPorts' # SubscribedPorts THEN 1 ELSE 0)]_vars

\* both clients subscribed port 80 and the second Subscribe cost no reprogram
C2_Witness ==
    /\ status = "running"
    /\ DOMAIN port_subscriptions = {80}
    /\ port_subscriptions[80] = ClientIds
    /\ times_filter_changed = 1

\* C3: an identifier and its reverse compare equal and hash equal, equal
\* identifiers hash equal, and both directions of a flow select the same
\* entry of the session map.
C3_DirectionInsensitive ==
    /\ \A x \in TcpSessionIdentifier :
          /\ eq(x, Reverse(x))
          /\ hash(x) = hash(Reverse(x))
          /\ entry(sessions, x) = entry(sessions, Reverse(x))
    /\ \A x, y \in TcpSessionIdentifier : eq(x, y) => hash(x) = hash(y)

\* a packet travelling against the direction of the session's key found the
\* session and its payload was broadcast on the session's channel
C3_Witness ==
    /\ last_packet.kind = "Data"
    /\ last_packet.reverse
    /\ last_packet.log = "sent"

\* C4 as stated: an identifier of a packet equals the key of a session if and
\* only if the two have the same canonical form, the sorted addresses
\* followed by the sorted ports that hash feeds to the hasher.
C4_EqualIffCanonicalEqual ==
    \A k \in DOMAIN sessions, x \in PacketIds : eq(k, x) <=> hash(k) = hash(x)

\* C4: two identifiers compare equal if and only if one is the other or the
\* reverse of the other.  Equal identifiers have the same canonical form, but
\* the same canonical form does not make identifiers equal: a flow and the
\* flow with the two ports exchanged never share a session entry.
C4_EqualIffSameOrReverse ==
    /\ \A x, y \in TcpSessionIdentifier :
          /\ eq(x, y) <=> (y = x \/ y = Reverse(x))
          /\ eq(x, y) => hash(x) = hash(y)
    /\ \A k \in DOMAIN sessions, x \in PacketIds :
          (x # k /\ x # Reverse(k)) => k \notin entry(sessions, x)

\* two sessions with the same canonical form are in the map at once
C4_Witness ==
    \E k1, k2 \in DOMAIN sessions : k1 # k2 /\ hash(k1) = hash(k2)

\* the step handles a packet that is not ignored
PacketStep == packets_left' = packets_left - 1

\* the step handles a packet that starts a session: it creates a channel
NewSessionStep == PacketStep /\ Len(channels') = Len(channels) + 1

\* client c holds a receiver of channel ch, waiting in its queue q[c] or
\* among its connections conns[c]
Holds(c, ch, q, conns) ==
    \/ \E i \in 1 .. Len(q[c]) : q[c][i].chan = ch
    \/ \E id \in DOMAIN conns[c] : conns[c][id].chan = ch

\* the queue of client c has room and its receiver is alive
HasRoom(c) == api[c] = "alive" /\ Len(queue[c]) < ConnectionChannelSize

\* C5: a packet that starts a session is for a port with a subscriber; the
\* sniffer sends the session's SniffedConnection once to each client
\* subscribed to the packet's destination port (every subscriber still
\* connected is among them) and to no other client: a queue grows by at most
\* that one connection, by exactly that one when it has room, and the queues
\* of clients not subscribed do not change.  No other step, in particular no
\* later packet of a session in the map and no packet for a port without
\* subscriber, adds a connection to a queue or an entry to the session map.
C5_OneConnectionPerSubscriber ==
    [][/\ NewSessionStep =>
            LET p == last_packet'.port
                ch == Len(channels')
            IN  /\ SubscribersOf(p) # {}
                /\ last_packet'.tried \subseteq SubscribersOf(p)
                /\ \A c \in SubscribersOf(p) :
                      api[c] = "alive" => c \in last_packet'.tried
                /\ \A c \in last_packet'.tried :
                      HasRoom(c) => c \in last_packet'.sent_to
                /\ \A c \in ClientIds :
                      IF c \in last_packet'.sent_to
                        THEN /\ c \in last_packet'.tried
                             /\ Len(queue'[c]) = Len(queue[c]) + 1
                             /\ SubSeq(queue'[c], 1, Len(queue[c])) = queue[c]
                             /\ queue'[c][Len(queue'[c])].chan = ch
                             /\ queue'[c][Len(queue'[c])].session_id.dest_port = p
                        ELSE queue'[c] = queue[c]
       /\ ~NewSessionStep =>
            /\ \A c \in ClientIds : Len(queue'[c]) <= Len(queue[c])
            /\ DOMAIN sessions' \subseteq DOMAIN sessions
            /\ Len(channels') = Len(channels)]_vars

\* a session started on a port that only client 0 subscribes while client 1
\* is connected: client 0 alone was sent the connection
C5_Witness ==
    /\ last_packet.kind = "NewSession"
    /\ last_packet.tried = {0}
    /\ last_packet.sent_to = {0}
    /\ api[1] = "alive"
    /\ 1 \in client_txs
    /\ Holds(0, last_packet.connection_id, queue, connections)
    /\ ~Holds(1, last_packet.connection_id, queue, connections)

\* C9: when a session is announced the sniffer stays running; a client whose
\* queue is full is skipped and every client whose queue has room gets the
\* connection; a client never gets a receiver of a session later than at the
\* announcement, so a skipped client never sees the session's connection or
\* data; and every packet is handled in one step that leaves the sniffer
\* running, whatever the state of the clients' queues.
C9_FullQueueNeverBlocks ==
    [][/\ NewSessionStep =>
            LET ch == Len(channels')
            IN  /\ status' = "running"
                /\ \A c \in last_packet'.tried :
                      /\ Len(queue[c]) >= ConnectionChannelSize =>
                            /\ queue'[c] = queue[c]
                            /\ ~Holds(c, ch, queue', connections')
                      /\ HasRoom(c) => Holds(c, ch, queue', connections')
       /\ \A c \in ClientIds, ch \in 1 .. Len(channels) :
             Holds(c, ch, queue', connections') => Holds(c, ch, queue, connections)
       /\ PacketStep => status' = "running"]_vars

\* both clients subscribe the port of a new session; client 1 has not read
\* its queue, which is full: the packet is handled all the same, client 1 is
\* skipped and client 0, who has room, is sent the connection
C9_Witness ==
    /\ last_packet.kind = "NewSession"
    /\ last_packet.tried = ClientIds
    /\ last_packet.sent_to = {0}
    /\ api[1] = "alive"
    /\ Len(queue[1]) = ConnectionChannelSize
    /\ Holds(0, last_packet.connection_id, queue, connections)
    /\ ~Holds(1, last_packet.connection_id, queue, connections)

\* the channel of the packet handled by the step, before and after the step
ChannelBefore ==
    IF last_packet'.connection_id <= Len(channels)
        THEN channels[last_packet'.connection_id]
        ELSE broadcast_channel
ChannelAfter == channels'[last_packet'.connection_id]

\* C6: every read of a connection yields a payload that arrived later than
\* the payload read before, so no payload is seen twice or out of order; a
\* packet with a payload appends it to the session's channel behind all
\* earlier payloads, or sends nothing when no receiver is left; a packet
\* with an empty payload sends nothing; and nothing but a packet changes what
\* a channel holds.
C6_PayloadsInArrivalOrder ==
    [][/\ \A c \in ClientIds :
             \A id \in DOMAIN connections[c] \cap DOMAIN connections'[c] :
                 connections'[c][id] # connections[c][id] =>
                     /\ connections'[c][id].chan = connections[c][id].chan
                     /\ connections'[c][id].last > connections[c][id].last
       /\ PacketStep =>
             /\ \A i \in 1 .. Len(ChannelBefore.buf) :
                   ChannelBefore.buf[i] < ChannelBefore.sent + 1
             /\ IF last_packet'.bytes = 0
                  THEN /\ ChannelAfter.buf = ChannelBefore.buf
                       /\ ChannelAfter.sent = ChannelBefore.sent
                  ELSE /\ last_packet'.bytes = ChannelBefore.sent + 1
                       /\ \/ /\ ChannelAfter.buf = ChannelBefore.buf
                             /\ ChannelAfter.sent = ChannelBefore.sent
                             /\ last_packet'.log = "failed"
                          \/ /\ ChannelAfter.sent = ChannelBefore.sent + 1
                             /\ ChannelAfter.buf =
                                   LastN(Append(ChannelBefore.buf, last_packet'.bytes),
                                         ConnectionDataChannelCapacity)
       /\ \A ch \in 1 .. Len(channels) :
             (~PacketStep \/ ch # last_packet'.connection_id) =>
                 /\ channels'[ch].buf = channels[ch].buf
                 /\ channels'[ch].sent = channels[ch].sent]_vars

\* a client has read the first and then the second payload of a session
C6_Witness ==
    \E c \in ClientIds : \E id \in DOMAIN connections[c] :
        /\ connections[c][id].next = 2
        /\ connections[c][id].last = 2
        /\ channels[connections[c][id].chan].sent >= 2

\* C7: a packet with FIN or RST closes the session's channel and leaves no
\* entry for it in the map, and when it carries a payload and a receiver is
\* left the payload is the last value put on the channel before it closes;
\* a connection ends without lag error only on a closed channel of which the
\* client has read every payload, the last one included; the map never holds
\* a closed channel, a closed channel never changes again, and a packet for a
\* 4-tuple that is not in the map is ignored unless it is a new-session
\* packet.
C7_PayloadBeforeClose ==
    [][/\ (PacketStep /\ last_packet'.closes) =>
             /\ ChannelAfter.closed
             /\ \A k \in DOMAIN sessions' : sessions'[k] # last_packet'.connection_id
             /\ ( /\ last_packet'.bytes # 0
                  /\ has_receiver(last_packet'.connection_id, queue', connections') ) =>
                   /\ ChannelAfter.sent = ChannelBefore.sent + 1
                   /\ ChannelAfter.buf[Len(ChannelAfter.buf)] = last_packet'.bytes
       /\ \A c \in ClientIds : \A id \in DOMAIN connections[c] \ DOMAIN connections'[c] :
             api'[c] = "alive" =>
                 LET rx == connections[c][id]
                     chan == channels[rx.chan]
                 IN  \/ rx.next < chan.sent - Len(chan.buf)
                     \/ /\ chan.closed
                        /\ rx.next = chan.sent
                        /\ chan.sent > 0 => rx.last = chan.sent
       /\ \A k \in DOMAIN sessions : ~channels[sessions[k]].closed
       /\ \A ch \in 1 .. Len(channels) :
             channels[ch].closed => channels'[ch] = channels[ch]
       /\ \A identifier \in PacketIds, flags \in FlagChoices \ {SYN} :
             entry(sessions, identifier) = {} =>
                 /\ packet_ignored(identifier, [flags |-> flags, bytes |-> EmptyBytes])
                 /\ packet_ignored(identifier,
                                   [flags |-> flags, bytes |-> payload(identifier, "raw")])]_vars

\* the packet that closed a session carried a payload, and a client has read
\* it from the closed channel
C7_Witness ==
    /\ last_packet.kind = "Data"
    /\ last_packet.closes
    /\ last_packet.bytes # 0
    /\ last_packet.log = "sent"
    /\ channels[last_packet.connection_id].closed
    /\ \E c \in ClientIds : \E id \in DOMAIN connections[c] :
          /\ connections[c][id].chan = last_packet.connection_id
          /\ connections[c][id].last = last_packet.bytes

\* the channels that have an entry in the session map
InMap(map) == {map[k] : k \in DOMAIN map}

\* C8 as stated: an entry whose channel has no receiver, because every
\* receiver was dropped or none was ever delivered, is eventually removed
\* from the map.  The claim is held to this only for as long as the network
\* may still deliver a packet.
C8_EventuallyRemoved ==
    \A k \in PacketIds :
        (k \in DOMAIN sessions /\ ~has_receiver(sessions[k], queue, connections))
            ~> (k \notin DOMAIN sessions \/ packets_left = 0)

\* C8: an entry enters the map only with a new-session packet and leaves it
\* only while a packet of its own session is handled: a packet with FIN or
\* RST, or a packet with a payload that finds no receiver.  A packet that
\* does neither leaves the entry in the map, with or without receivers, and
\* so does every step that is not a packet, unless the sniffer ends with
\* it: dropping the last receiver removes nothing by itself.
C8_RemovedOnlyByItsPackets ==
    [][/\ \A k \in DOMAIN sessions \ DOMAIN sessions' :
             \/ status' # "running"
             \/ /\ PacketStep
                /\ last_packet'.connection_id = sessions[k]
                /\ \/ last_packet'.closes
                   \/ /\ last_packet'.bytes # 0
                      /\ ~has_receiver(sessions[k], queue, connections)
       /\ PacketStep =>
             LET ch == last_packet'.connection_id
                 dead == ~has_receiver(ch, queue', connections')
             IN  IF last_packet'.closes \/ (last_packet'.bytes # 0 /\ dead)
                   THEN ch \notin InMap(sessions')
                   ELSE ch \in InMap(sessions')
       /\ (~PacketStep /\ status' = "running") => sessions' = sessions
       /\ DOMAIN sessions' \ DOMAIN sessions # {} => NewSessionStep]_vars

\* a packet without FIN or RST carried a payload to a session whose receivers
\* were all dropped, and the entry left the map
C8_Witness ==
    /\ last_packet.kind = "Data"
    /\ ~last_packet.closes
    /\ last_packet.log = "failed"
    /\ last_packet.ret
    /\ last_packet.connection_id \notin InMap(sessions)
    /\ channels[last_packet.connection_id].closed

\* C10: the ids of a client start at 0; the connection a client takes from
\* its queue gets the id that follows the id of the connection it took
\* before, and no other step, in particular no session announced to a full
\* queue, uses up an id or gives the client a connection.
C10_IdsAssignedOnDelivery ==
    /\ \A c \in ClientIds : next_connection_id[c] = 0
    /\ [][\A c \in ClientIds :
             IF api'[c] = "alive" /\ Len(queue'[c]) = Len(queue[c]) - 1
               THEN /\ DOMAIN connections'[c] \ DOMAIN connections[c]
                          = {next_connection_id[c]}
                    /\ connections'[c][next_connection_id[c]] = Head(queue[c])
                    /\ next_connection_id'[c] = next_connection_id[c] + 1
               ELSE /\ DOMAIN connections'[c] \subseteq DOMAIN connections[c]
                    /\ next_connection_id'[c] = next_connection_id[c]]_vars

\* of three sessions the second was dropped for client 0, whose queue was
\* full, and the third was delivered with id 1
C10_Witness ==
    /\ Len(channels) = 3
    /\ next_connection_id[0] = 2
    /\ 1 \in DOMAIN connections[0]
    /\ connections[0][1].chan = 3
    /\ ~Holds(0, 2, queue, connections)

(***************************************************************************)
(* A client that lags on a connection's data                               *)
(***************************************************************************)
\* the receiver of connection id of client c missed a payload: the channel
\* no longer retains the payload the receiver would read next
Lagging(c, id) ==
    /\ id \in DOMAIN connections[c]
    /\ LET rx == connections[c][id]
           chan == channels[rx.chan]
       IN  rx.next < chan.sent - Len(chan.buf)

\* this step, client c takes an item from the stream of its connection id
ReadStep(c, id) ==
    /\ api[c] = "alive"
    /\ api'[c] = "alive"
    /\ id \in DOMAIN connections[c]
    /\ \/ id \notin DOMAIN connections'[c]
       \/ connections'[c][id] # connections[c][id]

\* C11: when a client has fallen behind on a connection by more than the
\* capacity of its broadcast channel, the next item the client takes from
\* that connection is Close with the connection's id, with a log of level
\* Error, and the connection is gone from the client; a Data item is only
\* ever taken from a connection the client still has, and a connection id
\* that was closed never comes back, so no Data follows the Close
C11_LagClosesConnection ==
    [][\A c \in ClientIds, id \in 0 .. MaxStreamPackets :
          /\ (Lagging(c, id) /\ ReadStep(c, id)) =>
                 /\ observed' = [NoEvent EXCEPT !.client = c, !.kind = "Close",
                                                !.connection_id = id,
                                                !.log = "error"]
                 /\ id \notin DOMAIN connections'[c]
          /\ ReadStep(c, id) =>
                 /\ observed'.client = c
                 /\ observed'.connection_id = id
                 /\ observed'.kind \in {"Data", "Close"}
                 /\ observed'.kind = "Close" <=> id \notin DOMAIN connections'[c]
          /\ (observed' # observed /\ observed'.kind = "Data") =>
                 observed'.connection_id \in DOMAIN connections[observed'.client]
          /\ (id \notin DOMAIN connections[c] /\ id < next_connection_id[c]) =>
                 id \notin DOMAIN connections'[c]]_vars

\* a client was more than the capacity behind and got Close with an error log
C11_Witness ==
    /\ observed.kind = "Close"
    /\ observed.log = "error"
    /\ observed.connection_id \notin DOMAIN connections[observed.client]
    /\ \E ch \in 1 .. Len(channels) : channels[ch].sent > ConnectionDataChannelCapacity

(***************************************************************************)
(* The file system of the host, as the agent's system calls see it         *)
(***************************************************************************)
\* what a path resolution that followed too many symbolic links yields
ELOOP == <<"ELOOP">>

\* the location a path of the host denotes: the kernel walks the components
\* from the directory cur, ".." steps to the parent, a symbolic link is
\* replaced by its destination, an absolute destination starts again from
\* the root of the host
RECURSIVE walk(_, _, _)
walk(cur, components, follow) ==
    IF components = <<>> \/ cur = ELOOP THEN cur
    ELSE LET component == Head(components)
             rest == Tail(components)
             location == cur \o <<component>>
         IN  IF component = "/" THEN walk(<<"/">>, rest, follow)
             ELSE IF component = "." THEN walk(cur, rest, follow)
             ELSE IF component = ".."
                 THEN walk(IF Len(cur) > 1 THEN SubSeq(cur, 1, Len(cur) - 1) ELSE cur,
                           rest, follow)
             ELSE IF location \in DOMAIN links
                 THEN IF follow = 0 THEN ELOOP
                      ELSE walk(cur, links[location] \o rest, follow - 1)
             ELSE walk(location, rest, follow)

\* the location of the entry a path names, its last component not followed
entry_location(path) ==
    LET parent == walk(<<"/">>, SubSeq(path, 1, Len(path) - 1), MaxFollow)
    IN  IF parent = ELOOP THEN ELOOP ELSE parent \o <<path[Len(path)]>>

\* Path::is_symlink and Path::read_link
is_symlink(path) == entry_location(path) \in DOMAIN links
read_link(path) == links[entry_location(path)]

\* what the path is to the system calls that follow links: a directory, a
\* regular file, or nothing
kind_of(path) ==
    LET location == walk(<<"/">>, path, MaxFollow)
    IN  IF location \in Dirs(root_path) THEN "dir"
        ELSE IF location \in Files(root_path) THEN "file"
        ELSE "none"

\* the names std::fs::read_dir yields for a directory, in its order
read_dir_names(path) ==
    LET location == walk(<<"/">>, path, MaxFollow)
        below == {l \in Dirs(root_path) \cup Files(root_path) :
                     /\ Len(l) = Len(location) + 1
                     /\ SubSeq(l, 1, Len(location)) = location}
        names == {l[Len(l)] : l \in below}
        order == <<"d", "f", "x", "long", "proc", "1", "root">>
    IN  SelectSeq(order, LAMBDA name : name \in names)

(***************************************************************************)
(* resolve_path                                                            *)
(***************************************************************************)
\* io::ErrorKind::InvalidInput
InvalidInput == [ok |-> FALSE, path |-> <<>>]

\* the Normal(component) arm: temp_path joined with the component, or with
\* the destination of the symbolic link the component is
joined(temp_path, root, component) ==
    LET real_path == join(join(root, temp_path), <<component>>)
    IN  IF is_symlink(real_path)
            THEN join(temp_path, read_link(real_path))
            ELSE join(temp_path, <<component>>)

\* the loop over path.components(), from temp_path on
RECURSIVE resolve_components(_, _, _)
resolve_components(components, temp_path, root) ==
    IF components = <<>> THEN [ok |-> TRUE, path |-> join(root, temp_path)]
    ELSE LET component == Head(components)
             rest == Tail(components)
         IN  IF component \in {"/", "."} THEN resolve_components(rest, temp_path, root)
             ELSE IF component = ".."
                 THEN IF temp_path = <<>> THEN InvalidInput
                      ELSE resolve_components(
                               rest, SubSeq(temp_path, 1, Len(temp_path) - 1), root)
             ELSE LET next_path == joined(temp_path, root, component)
                  IN  resolve_components(
                          rest,
                          IF has_root(next_path) THEN Tail(next_path) ELSE next_path,
                          root)

resolve_path(path, root) == resolve_components(path, <<>>, root)


(***************************************************************************)
(* FileManager (mirrord/agent/src/file.rs)                                 *)
(*                                                                         *)
(* A method is an action on the manager's fields that leaves its           *)
(* RemoteResult in result.  A system call that may fail for reasons the    *)
(* manager does not control (fstat, read, write, mkdir, ...) succeeds or   *)
(* fails with an io::Error; the requests do not change the directories of  *)
(* the host.                                                               *)
(***************************************************************************)
\* ResponseError::RemoteIO with the kind of the io::Error
RemoteIO(kind) == [NoResult EXCEPT !.is = "RemoteIO", !.io = kind]

\* HashMap::insert
insert(map, key, value) ==
    [k \in DOMAIN map \cup {key} |-> IF k = key THEN value ELSE map[k]]
\* HashMap::remove
remove(map, key) == Restrict(map, DOMAIN map \ {key})

\* RemoteFile::File with the location of the file it has open and the offset
\* of its open file description, RemoteFile::Directory with its path
RemoteFile_File(path) ==
    [is |-> "File", path |-> walk(<<"/">>, path, MaxFollow), offset |-> 0]
RemoteFile_Directory(path) == [is |-> "Directory", path |-> path, offset |-> 0]

\* the method returns error and leaves the files and the tables as they are
fail(error) ==
    /\ result' = error
    /\ UNCHANGED <<open_files, dir_streams, getdents_streams, file_size>>

\* ids come from the smallest id that no live entry has
fds_iter_next_Reuse(iter) ==
    LET free == (0 .. iter.end) \ (DOMAIN open_files \cup DOMAIN dir_streams)
    IN  IF free = {} THEN [some |-> FALSE, fd |-> 0, iter |-> iter]
        ELSE [some |-> TRUE, fd |-> CHOOSE fd \in free : \A other \in free : fd <= other,
              iter |-> iter]

\* RangeInclusive<u64>::next
fds_iter_next(iter) ==
    IF iter.exhausted \/ iter.start > iter.end
        THEN [some |-> FALSE, fd |-> 0, iter |-> iter]
    ELSE IF iter.start < iter.end
        THEN [some |-> TRUE, fd |-> iter.start,
              iter |-> [iter EXCEPT !.start = @ + 1]]
    ELSE [some |-> TRUE, fd |-> iter.start,
          iter |-> [iter EXCEPT !.exhausted = TRUE]]

\* the tail that open and open_relative share: the file at path is opened,
\* an id is drawn, and the entry is inserted when fstat succeeds
open_file(path) ==
    LET next_fd == fds_iter_next(fds_iter)
    IN  IF kind_of(path) = "none"
            THEN fail(RemoteIO("NotFound")) /\ UNCHANGED fds_iter
        ELSE IF ~next_fd.some
            THEN fail(RemoteErr("IdsExhausted", 0)) /\ fds_iter' = next_fd.iter
        ELSE /\ fds_iter' = next_fd.iter
             /\ \/ fail(RemoteIO("Other"))
                \/ /\ open_files' =
                          insert(open_files, next_fd.fd,
                                 IF kind_of(path) = "dir"
                                     THEN RemoteFile_Directory(path)
                                     ELSE RemoteFile_File(path))
                   /\ result' = [RemoteOk EXCEPT !.fd = next_fd.fd]
                   /\ UNCHANGED <<dir_streams, getdents_streams, file_size>>

open(path) ==
    LET real == resolve_path(path, root_path)
    IN  IF ~real.ok
            THEN fail(RemoteIO("InvalidInput")) /\ UNCHANGED fds_iter
            ELSE open_file(real.path)

\* a file is to the directory operations as an id without an entry
directory_of_NotFound(fd) ==
    IF fd \in DOMAIN open_files /\ open_files[fd].is = "Directory"
        THEN RemoteOk
        ELSE RemoteErr("NotFound", fd)

\* the look up of a directory: NotFound without an entry, NotDirectory for
\* a file
directory_of(fd) ==
    IF fd \notin DOMAIN open_files THEN RemoteErr("NotFound", fd)
    ELSE IF open_files[fd].is = "Directory" THEN RemoteOk
    ELSE RemoteErr("NotDirectory", fd)

open_relative(relative_fd, path) ==
    IF directory_of(relative_fd) = RemoteOk
        THEN open_file(join(open_files[relative_fd].path, path))
        ELSE fail(directory_of(relative_fd)) /\ UNCHANGED fds_iter

\* the bytes a read of at most buffer_size bytes at offset may return: none
\* at or after the end of the file or for an empty buffer, else at least one
read_amounts(file, buffer_size, offset) ==
    LET size == file_size[file.path]
        available == IF offset < size THEN size - offset ELSE 0
        most == IF buffer_size < available THEN buffer_size ELSE available
    IN  IF most = 0 THEN {0} ELSE 1 .. most

\* Vec::truncate: the length of a vector of len items truncated to new_len
truncate(len, new_len) == IF new_len < len THEN new_len ELSE len

\* file.read leaves the offset where it was
read_advance_Not(file, read_amount) == file

\* file.read moves the offset of the file by the bytes it read
read_advance(file, read_amount) == [file EXCEPT !.offset = @ + read_amount]

\* a method on the file behind fd: NotFound without an entry, NotFile for a
\* directory, else what the method does with the file
with_file(fd, method(_)) ==
    IF fd \notin DOMAIN open_files
        THEN fail(RemoteErr("NotFound", fd))
    ELSE IF open_files[fd].is = "File"
        THEN method(open_files[fd])
    ELSE fail(RemoteErr("NotFile", fd))

read(fd, buffer_size) ==
    LET file_read(file) ==
            \/ fail(RemoteIO("Other"))
            \/ \E read_amount \in read_amounts(file, buffer_size, file.offset) :
                  /\ open_files' =
                         [open_files EXCEPT ![fd] = read_advance(file, read_amount)]
                  /\ result' = [RemoteOk EXCEPT
                                    !.bytes = truncate(buffer_size, read_amount),
                                    !.amount = read_amount,
                                    !.offset = file.offset]
                  /\ UNCHANGED <<dir_streams, getdents_streams, file_size>>
    IN  with_file(fd, file_read) /\ UNCHANGED fds_iter

read_limited(fd, buffer_size, start_from) ==
    LET file_read_at(file) ==
            \/ fail(RemoteIO("Other"))
            \/ \E read_amount \in read_amounts(file, buffer_size, start_from) :
                  /\ result' = [RemoteOk EXCEPT
                                    !.bytes = truncate(buffer_size, read_amount),
                                    !.amount = read_amount,
                                    !.offset = start_from]
                  /\ UNCHANGED <<open_files, dir_streams, getdents_streams, file_size>>
    IN  with_file(fd, file_read_at) /\ UNCHANGED fds_iter

\* the size of a file after len bytes were written at offset
grown(file, offset, len) ==
    [file_size EXCEPT ![file.path] = IF offset + len > @ THEN offset + len ELSE @]

\* the bytes a write of len bytes at offset may take: the file system has no
\* room for a file of more than MaxFileSize bytes
write_amounts(len, offset) ==
    LET room == IF offset < MaxFileSize THEN MaxFileSize - offset ELSE 0
        most == IF len < room THEN len ELSE room
    IN  IF len = 0 THEN {0} ELSE 1 .. most

write(fd, len) ==
    LET file_write(file) ==
            \/ fail(RemoteIO("Other"))
            \/ \E written_amount \in write_amounts(len, file.offset) :
                  /\ open_files' = [open_files EXCEPT ![fd].offset = @ + written_amount]
                  /\ file_size' = grown(file, file.offset, written_amount)
                  /\ result' = [RemoteOk EXCEPT !.amount = written_amount]
                  /\ UNCHANGED <<dir_streams, getdents_streams>>
    IN  with_file(fd, file_write) /\ UNCHANGED fds_iter

write_limited(fd, start_from, len) ==
    LET file_write_at(file) ==
            \/ fail(RemoteIO("Other"))
            \/ \E written_amount \in write_amounts(len, start_from) :
                  /\ file_size' = grown(file, start_from, written_amount)
                  /\ result' = [RemoteOk EXCEPT !.amount = written_amount]
                  /\ UNCHANGED <<open_files, dir_streams, getdents_streams>>
    IN  with_file(fd, file_write_at) /\ UNCHANGED fds_iter

\* SeekFrom::Start(n), SeekFrom::End(n) and SeekFrom::Current(n): the offset
\* the seek asks for
seek_target(file, seek_from) ==
    CASE seek_from.from = "Start" -> seek_from.n
      [] seek_from.from = "End" -> file_size[file.path] + seek_from.n
      [] seek_from.from = "Current" -> file.offset + seek_from.n

seek(fd, seek_from) ==
    LET file_seek(file) ==
            IF seek_target(file, seek_from) < 0
                THEN fail(RemoteIO("InvalidInput"))
                ELSE /\ open_files' =
                            [open_files EXCEPT ![fd].offset = seek_target(file, seek_from)]
                     /\ result' = [RemoteOk EXCEPT !.offset = seek_target(file, seek_from)]
                     /\ UNCHANGED <<dir_streams, getdents_streams, file_size>>
    IN  with_file(fd, file_seek) /\ UNCHANGED fds_iter

close(fd) ==
    /\ open_files' = remove(open_files, fd)
    /\ result' = NoResult
    /\ UNCHANGED <<dir_streams, getdents_streams, file_size, fds_iter>>

close_dir(fd) ==
    /\ dir_streams' = remove(dir_streams, fd)
    /\ getdents_streams' =
           IF fd \in DOMAIN dir_streams
               THEN getdents_streams
               ELSE remove(getdents_streams, fd)
    /\ result' = NoResult
    /\ UNCHANGED <<open_files, file_size, fds_iter>>


\* a method on the directory behind fd, or the failure of its look up
with_directory(fd, method(_)) ==
    IF directory_of(fd) = RemoteOk
        THEN method(open_files[fd].path)
        ELSE fail(directory_of(fd))

\* a system call on a path: it succeeds or fails, and changes nothing here
system_call(path) ==
    \/ fail(RemoteIO("Other"))
    \/ /\ result' = RemoteOk
       /\ UNCHANGED <<open_files, dir_streams, getdents_streams, file_size>>

\* a system call on the path that resolve_path makes of path
resolved_call(path) ==
    IF resolve_path(path, root_path).ok
        THEN system_call(resolve_path(path, root_path).path)
        ELSE fail(RemoteIO("InvalidInput"))

\* Path::strip_prefix("/")
strip_prefix(path) ==
    IF has_root(path) THEN [ok |-> TRUE, path |-> Tail(path)]
    ELSE [ok |-> FALSE, path |-> <<>>]

read_link_request(path) ==
    /\ IF strip_prefix(path).ok
           THEN system_call(join(root_path, strip_prefix(path).path))
           ELSE fail(RemoteIO("Other"))
    /\ UNCHANGED fds_iter

mkdir(path) == resolved_call(path) /\ UNCHANGED fds_iter
rmdir(path) == resolved_call(path) /\ UNCHANGED fds_iter
unlink(path) == resolved_call(path) /\ UNCHANGED fds_iter
access(pathname) == resolved_call(pathname) /\ UNCHANGED fds_iter

mkdirat(dirfd, path) ==
    LET mkdir_in(relative_dir) == system_call(join(relative_dir, path))
    IN  with_directory(dirfd, mkdir_in) /\ UNCHANGED fds_iter

\* dirfd is Some(fd) or None
unlinkat(dirfd, path) ==
    LET unlink_in(relative_dir) == system_call(join(relative_dir, path))
    IN  /\ IF dirfd.some THEN with_directory(dirfd.fd, unlink_in)
                         ELSE resolved_call(path)
        /\ UNCHANGED fds_iter

\* path and fd are Some or None
xstat(path, fd) ==
    LET stat_path(full) ==
            IF strip_prefix(full).ok
                THEN system_call(join(root_path, strip_prefix(full).path))
                ELSE fail(RemoteIO("InvalidInput"))
        stat_in(parent_path) == stat_path(join(parent_path, path.path))
    IN  /\ CASE path.some /\ ~fd.some -> stat_path(path.path)
             [] path.some /\ fd.some -> with_directory(fd.fd, stat_in)
             [] ~path.some /\ fd.some ->
                    IF fd.fd \notin DOMAIN open_files
                        THEN fail(RemoteErr("NotFound", fd.fd))
                        ELSE system_call(open_files[fd.fd].path)
             [] OTHER -> fail(RemoteIO("InvalidInput"))
        /\ UNCHANGED fds_iter

xstatfs(fd) ==
    /\ IF fd \notin DOMAIN open_files
           THEN fail(RemoteErr("NotFound", fd))
           ELSE system_call(open_files[fd].path)
    /\ UNCHANGED fds_iter

\* Enumerate<ReadDir>: the names still to come and the index of the next
fdopen_dir(fd) ==
    LET next_fd == fds_iter_next(fds_iter)
    IN  IF directory_of(fd) # RemoteOk
            THEN fail(directory_of(fd)) /\ UNCHANGED fds_iter
        ELSE IF ~next_fd.some
            THEN fail(RemoteErr("IdsExhausted", 0)) /\ fds_iter' = next_fd.iter
        ELSE /\ fds_iter' = next_fd.iter
             /\ \/ fail(RemoteIO("Other"))
                \/ /\ dir_streams' =
                          insert(dir_streams, next_fd.fd,
                                 [inner |-> read_dir_names(open_files[fd].path),
                                  index |-> 0])
                   /\ result' = [RemoteOk EXCEPT !.fd = next_fd.fd]
                   /\ UNCHANGED <<open_files, getdents_streams, file_size>>

\* the first amount items of the stream, as (index, name) entries
taken(stream, amount) ==
    [i \in 1 .. (IF amount < Len(stream.inner) THEN amount ELSE Len(stream.inner)) |->
        [name |-> stream.inner[i], position |-> stream.index + i - 1]]
\* the stream after it yielded the entries
rest_after(stream, entries) ==
    [inner |-> SubSeq(stream.inner, Len(entries) + 1, Len(stream.inner)),
     index |-> stream.index + Len(entries)]

read_dir(fd) ==
    /\ IF fd \notin DOMAIN dir_streams
           THEN fail(RemoteErr("NotFound", fd))
           ELSE LET entries == taken(dir_streams[fd], 1)
                IN  /\ dir_streams' =
                           [dir_streams EXCEPT ![fd] = rest_after(@, entries)]
                    /\ \/ result' = [RemoteOk EXCEPT !.entries = entries]
                       \/ entries # <<>> /\ result' = RemoteIO("Other")
                    /\ UNCHANGED <<open_files, getdents_streams, file_size>>
    /\ UNCHANGED fds_iter

read_dir_batch(fd, amount) ==
    /\ IF fd \notin DOMAIN dir_streams
           THEN fail(RemoteErr("NotFound", fd))
           ELSE LET entries == taken(dir_streams[fd], amount)
                IN  \/ /\ dir_streams' =
                              [dir_streams EXCEPT ![fd] = rest_after(@, entries)]
                       /\ result' = [RemoteOk EXCEPT !.fd = fd, !.entries = entries]
                       /\ UNCHANGED <<open_files, getdents_streams, file_size>>
                    \/ \E failed \in 1 .. Len(entries) :
                          /\ dir_streams' =
                                 [dir_streams EXCEPT ![fd] =
                                     rest_after(@, SubSeq(entries, 1, failed))]
                          /\ result' = RemoteIO("Other")
                          /\ UNCHANGED <<open_files, getdents_streams, file_size>>
    /\ UNCHANGED fds_iter

\* Path::parent: None for the root directory
has_parent(path) == Len(path) > 1

\* the entries of the current directory and of its parent, if it has one
get_current_and_parent_entries(current) ==
    <<[name |-> ".", position |-> 0]>>
        \o (IF has_parent(current) THEN <<[name |-> "..", position |-> 1]>> ELSE <<>>)

\* GetDEnts64Stream::new
GetDEnts64Stream_new(inner, current_and_parent) ==
    [inner |-> inner, current_and_parent |-> current_and_parent, current_index |-> 0]

\* the stream has no next item
at_end(stream) == stream.current_and_parent = <<>> /\ stream.inner = <<>>

\* the position of a child is the number of children before it
next_entry_FromZero(stream) ==
    IF stream.current_and_parent # <<>>
        THEN Head(stream.current_and_parent)
        ELSE [name |-> Head(stream.inner),
              position |-> stream.current_index - 2]

\* GetDEnts64Stream::next, the item: the entries of the current directory
\* and of its parent first, then the children with current_index as position
next_entry(stream) ==
    IF stream.current_and_parent # <<>>
        THEN Head(stream.current_and_parent)
        ELSE [name |-> Head(stream.inner), position |-> stream.current_index]

\* GetDEnts64Stream::next, the stream it leaves
after_next(stream) ==
    IF stream.current_and_parent # <<>>
        THEN [stream EXCEPT !.current_and_parent = Tail(@),
                            !.current_index = @ + 1]
        ELSE [stream EXCEPT !.inner = Tail(@), !.current_index = @ + 1]

\* DirEntryInternal::get_d_reclen64: the size of the record of an entry,
\* which grows with the length of its name
get_d_reclen64(dir_entry) ==
    CASE dir_entry.name = ".." -> 4
      [] dir_entry.name \in {"long", "proc", "root"} -> 6
      [] OTHER -> 3

\* the while loop of getdents64: next_if takes the next entry when it fits
RECURSIVE getdents64_loop(_, _, _, _)
getdents64_loop(stream, entries, result_size, buffer_size) ==
    IF /\ ~at_end(stream)
       /\ get_d_reclen64(next_entry(stream)) + result_size <= buffer_size
        THEN getdents64_loop(after_next(stream),
                             Append(entries, next_entry(stream)),
                             result_size + get_d_reclen64(next_entry(stream)),
                             buffer_size)
        ELSE [stream |-> stream, entries |-> entries, result_size |-> result_size]

\* get_or_create_getdents64_stream, then the entries that fit
getdents64(fd, buffer_size) ==
    LET respond(stream) ==
            LET got == getdents64_loop(stream, <<>>, 0, buffer_size)
            IN  /\ getdents_streams' = insert(getdents_streams, fd, got.stream)
                /\ result' = [RemoteOk EXCEPT !.fd = fd, !.entries = got.entries,
                                              !.amount = got.result_size]
                /\ UNCHANGED <<open_files, dir_streams, file_size>>
        create(dir) ==
            \/ fail(RemoteIO("Other"))
            \/ respond(GetDEnts64Stream_new(read_dir_names(dir),
                                            get_current_and_parent_entries(dir)))
    IN  /\ IF fd \in DOMAIN getdents_streams
               THEN respond(getdents_streams[fd])
               ELSE with_directory(fd, create)
        /\ UNCHANGED fds_iter


(***************************************************************************)
(* FileManager::handle_message                                             *)
(***************************************************************************)
\* handle_message returns Ok(Some(FileResponse::kind(result)))
Some(kind, request) ==
    returned' = [ret |-> "Some", kind |-> kind, request |-> request]
\* handle_message returns Ok(None)
Nothing(request) ==
    returned' = [ret |-> "None", kind |-> "none", request |-> request]
\* the `?` on strip_prefix: handle_message returns Err
agent_error(request) ==
    /\ returned' = [ret |-> "Err", kind |-> "none", request |-> request]
    /\ result' = NoResult
    /\ UNCHANGED <<open_files, dir_streams, getdents_streams, file_size, fds_iter>>

handle_message(request) ==
    CASE request.kind = "Open" ->
             IF strip_prefix(request.path).ok
                 THEN open(strip_prefix(request.path).path) /\ Some("Open", request)
                 ELSE agent_error(request)
      [] request.kind = "OpenRelative" ->
             open_relative(request.fd, request.path) /\ Some("Open", request)
      [] request.kind = "Read" ->
             read(request.fd, request.n) /\ Some("Read", request)
      [] request.kind = "ReadLimited" ->
             /\ read_limited(request.fd, request.n, request.start_from)
             /\ Some("ReadLimited", request)
      [] request.kind = "ReadLink" ->
             read_link_request(request.path) /\ Some("ReadLink", request)
      [] request.kind = "Seek" ->
             /\ seek(request.fd, [from |-> request.from, n |-> request.n])
             /\ Some("Seek", request)
      [] request.kind = "Write" ->
             write(request.fd, request.n) /\ Some("Write", request)
      [] request.kind = "WriteLimited" ->
             /\ write_limited(request.fd, request.start_from, request.n)
             /\ Some("WriteLimited", request)
      [] request.kind = "Close" ->
             close(request.fd) /\ Nothing(request)
      [] request.kind = "Access" ->
             IF strip_prefix(request.path).ok
                 THEN access(strip_prefix(request.path).path) /\ Some("Access", request)
                 ELSE agent_error(request)
      [] request.kind = "Xstat" ->
             /\ xstat([some |-> request.has_path, path |-> request.path],
                      [some |-> request.has_fd, fd |-> request.fd])
             /\ Some("Xstat", request)
      [] request.kind = "XstatFs" ->
             xstatfs(request.fd) /\ Some("XstatFs", request)
      [] request.kind = "FdOpenDir" ->
             fdopen_dir(request.fd) /\ Some("OpenDir", request)
      [] request.kind = "ReadDir" ->
             read_dir(request.fd) /\ Some("ReadDir", request)
      [] request.kind = "ReadDirBatch" ->
             read_dir_batch(request.fd, request.n) /\ Some("ReadDirBatch", request)
      [] request.kind = "CloseDir" ->
             close_dir(request.fd) /\ Nothing(request)
      [] request.kind = "GetDEnts64" ->
             getdents64(request.fd, request.n) /\ Some("GetDEnts64", request)
      [] request.kind = "MakeDir" ->
             mkdir(request.path) /\ Some("MakeDir", request)
      [] request.kind = "MakeDirAt" ->
             mkdirat(request.fd, request.path) /\ Some("MakeDir", request)
      [] request.kind = "RemoveDir" ->
             rmdir(request.path) /\ Some("RemoveDir", request)
      [] request.kind = "Unlink" ->
             unlink(request.path) /\ Some("Unlink", request)
      [] request.kind = "UnlinkAt" ->
             /\ unlinkat([some |-> request.has_fd, fd |-> request.fd], request.path)
             /\ Some("Unlink", request)

\* the agent's file task passes a request of the layer to the manager
file_request(request) ==
    /\ requests_left > 0
    /\ requests_left' = requests_left - 1
    /\ handle_message(request)
    /\ issued' = IF returned'.kind \in {"Open", "OpenDir"} /\ result'.is = "Ok"
                     THEN Append(issued, result'.fd)
                     ELSE issued
    /\ UNCHANGED <<root_path, links>>
    /\ UNCHANGED beside_files

\* the ids a request may name
Fds == 0 .. MaxFd

(***************************************************************************)
(* Ids: the requests that open and close, on a file manager with few ids   *)
(***************************************************************************)
IdRequests ==
    {[NoArgs EXCEPT !.kind = "Open", !.path = path] :
        path \in {<<"/", "d">>, <<"/", "f">>, <<"/", "zz">>}}
    \cup {[NoArgs EXCEPT !.kind = "OpenRelative", !.fd = fd, !.path = <<"x">>] :
             fd \in Fds}
    \cup {[NoArgs EXCEPT !.kind = kind, !.fd = fd] :
             kind \in {"FdOpenDir", "Close", "CloseDir"}, fd \in Fds}

\* the sniffer of the agent was never started
SnifferIdle ==
    /\ status = "running"
    /\ command_rx = <<>>
    /\ port_subscriptions = EmptyMap
    /\ sessions = EmptyMap
    /\ client_txs = {}
    /\ clients_closed = {}
    /\ filter = initial_filter
    /\ times_filter_changed = 0
    /\ channels = <<>>
    /\ api = [c \in ClientIds |-> "none"]
    /\ queue = [c \in ClientIds |-> <<>>]
    /\ connections = [c \in ClientIds |-> EmptyMap]
    /\ next_connection_id = [c \in ClientIds |-> 0]
    /\ last_packet = NoPacket
    /\ observed = NoEvent
    /\ signals = NoSignals
    /\ commands_left = 0
    /\ packets_left = 0

\* what a file manager starts from: nothing but it runs
beside_files_idle ==
    /\ SnifferIdle
    /\ resolved = NotResolved
    /\ mirrord_rules = NotListed
    /\ LayerIdle
    /\ ChainIdle

InitIds ==
    /\ \E pid \in {None} \cup Pids : FileManager_new(pid)
    /\ PlainFileSystem
    /\ requests_left = MaxIdRequests
    /\ beside_files_idle

NextIds == \E request \in IdRequests : file_request(request)

SpecIds == InitIds /\ [][NextIds]_vars

(***************************************************************************)
(* Files: requests of every kind                                           *)
(***************************************************************************)
\* a request of the kind with the id
OnFd(kind, fd) == [NoArgs EXCEPT !.kind = kind, !.fd = fd, !.has_fd = TRUE]
\* a request of the kind with the path
OnPath(kind, path) == [NoArgs EXCEPT !.kind = kind, !.path = path, !.has_path = TRUE]

FileRequests ==
    {OnPath("Open", path) : path \in {<<"/", "d">>, <<"/", "f">>, <<"f">>, <<"/", "..">>}}
    \cup {OnPath("Access", path) : path \in {<<"/", "f">>, <<"f">>}}
    \cup {OnPath(kind, <<"/", "zz">>) : kind \in {"MakeDir", "RemoveDir", "Unlink"}}
    \cup {OnPath("ReadLink", path) : path \in {<<"/", "zz">>, <<"zz">>}}
    \cup {[OnFd(kind, fd) EXCEPT !.path = <<"x">>, !.has_path = TRUE] :
             kind \in {"OpenRelative", "MakeDirAt", "UnlinkAt", "Xstat"}, fd \in Fds}
    \cup {OnPath(kind, <<"/", "f">>) : kind \in {"UnlinkAt", "Xstat"}}
    \cup {OnFd("Xstat", fd) : fd \in Fds}
    \cup {[NoArgs EXCEPT !.kind = "Xstat"]}
    \cup {[OnFd(kind, fd) EXCEPT !.n = 1] :
             kind \in {"Read", "ReadLimited", "Write", "WriteLimited", "Seek",
                       "ReadDirBatch"},
             fd \in Fds}
    \cup {[OnFd("GetDEnts64", fd) EXCEPT !.n = 7] : fd \in Fds}
    \cup {OnFd(kind, fd) :
             kind \in {"Close", "CloseDir", "FdOpenDir", "ReadDir", "XstatFs"},
             fd \in Fds}

InitFiles ==
    /\ \E pid \in {None} \cup Pids : FileManager_new(pid)
    /\ PlainFileSystem
    /\ requests_left = MaxRequests
    /\ beside_files_idle

NextFiles == \E request \in FileRequests : file_request(request)

SpecFiles == InitFiles /\ [][NextFiles]_vars

\* the ids the generator has yielded
Drawn(iter) == IF iter.exhausted THEN 0 .. iter.end ELSE 0 .. iter.start - 1
\* the ids of the live entries
LiveIds == DOMAIN open_files \cup DOMAIN dir_streams
\* the ids in a sequence
Range(seq) == {seq[i] : i \in 1 .. Len(seq)}

\* C12: the ids the manager issues are strictly increasing, every live entry
\* has an id that was issued and no id is live in both tables; the generator
\* never goes back, so an id that was drawn is not drawn again, whether its
\* entry was closed or the request failed after the draw; once the generator
\* is exhausted a request that needs an id is answered IdsExhausted and no
\* entry is added
C12_IdsNeverReused ==
    /\ [](/\ \A i, j \in 1 .. Len(issued) : i < j => issued[i] < issued[j]
          /\ LiveIds \subseteq Range(issued)
          /\ Range(issued) \subseteq Drawn(fds_iter)
          /\ DOMAIN open_files \cap DOMAIN dir_streams = {})
    /\ [][/\ Drawn(fds_iter) \subseteq Drawn(fds_iter')
          /\ LiveIds' \ LiveIds \subseteq Drawn(fds_iter') \ Drawn(fds_iter)
          /\ Len(issued') > Len(issued) =>
                 /\ issued'[Len(issued')] \notin Drawn(fds_iter)
                 /\ issued'[Len(issued')] \in LiveIds'
          /\ fds_iter.exhausted =>
                 /\ LiveIds' \subseteq LiveIds
                 /\ issued' = issued
                 /\ (returned'.kind \in {"Open", "OpenDir"}
                       /\ result'.is \notin {"NotFound", "NotDirectory", "RemoteIO"})
                        => result'.is = "IdsExhausted"]_vars

\* an id was drawn by a request that then failed, an entry was closed, and
\* a later request got a larger id; then the generator ran out
C12_Witness ==
    /\ fds_iter.exhausted
    /\ result.is = "IdsExhausted"
    /\ Len(issued) >= 1
    /\ Range(issued) # Drawn(fds_iter)
    /\ LiveIds # Range(issued)
    /\ LiveIds # {}

\* this step, the file manager handles a request
FileStep == requests_left' = requests_left - 1

\* the operations on a file and the operations relative to a directory
FileOperations == {"Read", "ReadLimited", "Write", "WriteLimited", "Seek"}
DirectoryOperations ==
    {"OpenRelative", "MakeDirAt", "UnlinkAt", "FdOpenDir", "ReadDir",
     "GetDEnts64", "Xstat"}
\* the request names a directory id for an operation relative to it
RelativeTo(request) ==
    /\ request.kind \in DirectoryOperations
    /\ request.has_fd
    /\ request.kind = "Xstat" => request.has_path
\* the failures of an id that is misused
Misuse == {"NotFile", "NotDirectory", "NotFound"}

\* C13 as it is stated: a file operation on a directory id fails with
\* NotFile(id), every directory operation on a file id, ReadDir among them,
\* fails with NotDirectory(id), an operation on an id without an entry in
\* the table of open files fails with NotFound(id), and these failures
\* change no table and no stream
C13_MisuseByKind ==
    [][FileStep =>
          LET request == returned'.request
              fd == request.fd
          IN  /\ (/\ request.kind \in FileOperations
                  /\ fd \in DOMAIN open_files
                  /\ open_files[fd].is = "Directory")
                     => result' = RemoteErr("NotFile", fd)
              /\ (/\ RelativeTo(request)
                  /\ fd \in DOMAIN open_files
                  /\ open_files[fd].is = "File")
                     => result' = RemoteErr("NotDirectory", fd)
              /\ (/\ request.kind \in FileOperations \/ RelativeTo(request)
                  /\ fd \notin DOMAIN open_files)
                     => result' = RemoteErr("NotFound", fd)
              /\ result'.is \in Misuse =>
                     UNCHANGED <<open_files, dir_streams, getdents_streams>>]_vars

\* the requests that look their id up in the table of open files
OnOpenFiles(request) ==
    \/ request.kind \in FileOperations \cup {"XstatFs"}
    \/ RelativeTo(request) /\ request.kind \notin {"ReadDir", "GetDEnts64"}
    \/ request.kind = "Xstat" /\ request.has_fd

\* C13, amended: ReadDir and ReadDirBatch look their id up in the table of
\* directory streams, whose ids FdOpenDir issues, and fail with NotFound(id)
\* for any other id, also for the id of an open file; GetDEnts64 fails with
\* NotFound(id) only when the id has neither an entry nor a getdents64
\* stream; the other operations fail by the kind of the entry: NotFile(id)
\* for a file operation on a directory, NotDirectory(id) for a directory
\* operation on a file, NotFound(id) without an entry; no such failure
\* changes a table or a stream
C13_MisuseByTable ==
    [][FileStep =>
          LET request == returned'.request
              fd == request.fd
          IN  /\ (/\ request.kind \in FileOperations
                  /\ fd \in DOMAIN open_files
                  /\ open_files[fd].is = "Directory")
                     => result' = RemoteErr("NotFile", fd)
              /\ (/\ RelativeTo(request)
                  /\ request.kind # "ReadDir"
                  /\ fd \in DOMAIN open_files
                  /\ open_files[fd].is = "File")
                     => result' = RemoteErr("NotDirectory", fd)
              /\ (OnOpenFiles(request) /\ fd \notin DOMAIN open_files)
                     => result' = RemoteErr("NotFound", fd)
              /\ (/\ request.kind \in {"ReadDir", "ReadDirBatch"}
                  /\ fd \notin DOMAIN dir_streams)
                     => result' = RemoteErr("NotFound", fd)
              /\ (/\ request.kind = "GetDEnts64"
                  /\ fd \notin DOMAIN open_files)
                     => (result' = RemoteErr("NotFound", fd)
                            <=> fd \notin DOMAIN getdents_streams)
              /\ result'.is \in Misuse =>
                     /\ result'.id = fd
                     /\ UNCHANGED <<open_files, dir_streams, getdents_streams,
                                    file_size, fds_iter>>]_vars

\* each of the three failures was the answer: ReadDir on the id of an open
\* file got NotFound, with a file, a directory and a directory stream at hand
C13_Witness ==
    /\ returned.request.kind = "ReadDir"
    /\ returned.request.fd \in DOMAIN open_files
    /\ open_files[returned.request.fd].is = "File"
    /\ result = RemoteErr("NotFound", returned.request.fd)
    /\ \E fd \in DOMAIN open_files : open_files[fd].is = "Directory"
    /\ dir_streams # EmptyMap

\* C14: a Close of the id of an open file or directory releases all the
\* manager holds for the id: the table of open files loses that one entry,
\* no getdents64 stream is left under the id, so no stream ever belongs to
\* an id without an entry, and every later request that names the id fails
\* with NotFound(id)
C14_CloseReleasesAll ==
    /\ [](DOMAIN getdents_streams \subseteq DOMAIN open_files)
    /\ [][FileStep =>
             LET request == returned'.request
                 fd == request.fd
             IN  /\ (request.kind = "Close" /\ fd \in DOMAIN open_files) =>
                        /\ DOMAIN open_files' = DOMAIN open_files \ {fd}
                        /\ fd \notin DOMAIN getdents_streams'
                 /\ (/\ request.has_fd
                     /\ request.kind \notin {"Close", "CloseDir"}
                     /\ fd \in Range(issued)
                     /\ fd \notin DOMAIN open_files \cup DOMAIN dir_streams)
                        => result' = RemoteErr("NotFound", fd)]_vars

(***************************************************************************)
(* Reads: the requests that open files and read, write and seek them       *)
(***************************************************************************)
ReadRequests ==
    {OnPath("Open", path) : path \in {<<"/", "f">>, <<"/", "d", "x">>, <<"/", "d">>}}
    \cup {[OnFd(kind, fd) EXCEPT !.n = n] :
             kind \in {"Read", "Write"}, fd \in Fds, n \in 0 .. MaxCount}
    \cup {[OnFd(kind, fd) EXCEPT !.n = 1, !.start_from = start_from] :
             kind \in {"ReadLimited", "WriteLimited"}, fd \in Fds,
             start_from \in 0 .. MaxFileSize - 1}
    \cup {[OnFd("Seek", fd) EXCEPT !.from = "Start", !.n = n] :
             fd \in Fds, n \in 0 .. MaxCount}
    \cup {[OnFd("Seek", fd) EXCEPT !.from = from, !.n = n] :
             fd \in Fds, from \in {"End", "Current"}, n \in {0 - 1, 0}}

InitReads ==
    /\ FileManager_new(None)
    /\ PlainFileSystem
    /\ requests_left = MaxReadRequests
    /\ beside_files_idle

NextReads == \E request \in ReadRequests : file_request(request)

SpecReads == InitReads /\ [][NextReads]_vars

\* this step, a Read of an open file is answered Ok
ReadOk ==
    /\ FileStep
    /\ returned'.request.kind = "Read"
    /\ result'.is = "Ok"

\* C15 as it is stated: a Read of count bytes returns read_amount bytes, at
\* most count, and moves the offset of the file by read_amount; it returns
\* no byte only when the offset is at, or past, the end of the file
C15_ZeroOnlyAtEof ==
    [][ReadOk =>
          LET request == returned'.request
              file == open_files[request.fd]
          IN  /\ result'.bytes = result'.amount
              /\ result'.amount <= request.n
              /\ open_files'[request.fd].offset = file.offset + result'.amount
              /\ result'.amount = 0 => file.offset >= file_size[file.path]]_vars

\* C15, amended: a Read of count bytes returns read_amount bytes, at most
\* count, and moves the offset of the file by read_amount, the offset of no
\* other entry and the size of no file; it returns no byte exactly when
\* count is zero or the offset is at, or past, the end of the file
C15_ZeroAtEofOrEmptyBuffer ==
    [][ReadOk =>
          LET request == returned'.request
              file == open_files[request.fd]
          IN  /\ result'.bytes = result'.amount
              /\ result'.amount <= request.n
              /\ open_files' =
                     [open_files EXCEPT ![request.fd].offset = @ + result'.amount]
              /\ file_size' = file_size
              /\ result'.amount = 0 <=>
                     (request.n = 0 \/ file.offset >= file_size[file.path])]_vars

\* a Read of no byte was answered with no byte before the end of the file,
\* after a Read that moved the offset
C15_Witness ==
    /\ returned.request.kind = "Read"
    /\ returned.request.n = 0
    /\ result.is = "Ok"
    /\ result.amount = 0
    /\ LET file == open_files[returned.request.fd]
       IN  file.offset > 0 /\ file.offset < file_size[file.path]

(***************************************************************************)
(* Directories: the requests that open directories and list them           *)
(***************************************************************************)
DirRequests ==
    {OnPath("Open", path) : path \in {<<"/">>, <<"/", "d">>}}
    \cup {[OnFd("GetDEnts64", fd) EXCEPT !.n = n] :
             fd \in {0, 1}, n \in {0, 3, 7, 10, MaxBuffer}}

InitDirs ==
    /\ \E pid \in {None} \cup Pids : FileManager_new(pid)
    /\ PlainFileSystem
    /\ requests_left = MaxDirRequests
    /\ beside_files_idle

NextDirs == \E request \in DirRequests : file_request(request)

SpecDirs == InitDirs /\ [][NextDirs]_vars

\* this step, a GetDEnts64 is answered Ok
GetDEnts64Ok ==
    /\ FileStep
    /\ returned'.request.kind = "GetDEnts64"
    /\ result'.is = "Ok"

\* the names with the positions from first on
Positioned(names, first) ==
    [i \in 1 .. Len(names) |-> [name |-> names[i], position |-> first + i - 1]]
\* the entries a stream still has to yield
Remaining(stream) ==
    stream.current_and_parent
        \o Positioned(stream.inner,
                      stream.current_index + Len(stream.current_and_parent))
\* the sum of the record sizes of the entries
RECURSIVE RecordSize(_)
RecordSize(entries) ==
    IF entries = <<>> THEN 0
    ELSE get_d_reclen64(Head(entries)) + RecordSize(Tail(entries))

\* what the calls on id fd had still to return before this step, when the
\* listing of a directory at path is all
StillToCome(fd, all(_)) ==
    IF fd \in DOMAIN getdents_streams
        THEN Remaining(getdents_streams[fd])
        ELSE all(open_files[fd].path)

\* a step of GetDEnts64 returns the next entries of all, as many as fit
ListsNext(all(_)) ==
    GetDEnts64Ok =>
        LET fd == returned'.request.fd
            before == StillToCome(fd, all)
        IN  /\ result'.entries \o Remaining(getdents_streams'[fd]) = before
            /\ RecordSize(result'.entries) <= returned'.request.n
            /\ before = <<>> => result'.entries = <<>>
            /\ (/\ before # <<>>
                /\ get_d_reclen64(Head(before)) <= returned'.request.n)
                   => result'.entries # <<>>

\* `.`, `..` and the children of the directory, with consecutive positions
WithParent(path) == Positioned(<<".", "..">> \o read_dir_names(path), 0)
\* the same, without `..` for the root directory, which has no parent
WithParentIfAny(path) ==
    Positioned(<<".">> \o (IF path = <<"/">> THEN <<>> ELSE <<"..">>)
                   \o read_dir_names(path), 0)

\* C16 as it is stated: the calls of GetDEnts64 on a directory id return `.`
\* and `..` and then the children in the order of the directory, with
\* consecutive positions, each call from where the one before stopped and
\* within buffer_size; when all were returned a call returns no entry
C16_DotDotAlways == [][ListsNext(WithParent)]_vars

\* C16, amended: the same, but `..` is returned only for a directory that
\* has a parent: the listing of the root directory "/" is `.` and then the
\* children
C16_DotDotIfParent == [][ListsNext(WithParentIfAny)]_vars

\* the root directory was listed to its end: `.` with position 0, then its
\* children from position 1, then a call that returned no entry
C16_Witness ==
    /\ returned.request.kind = "GetDEnts64"
    /\ result.is = "Ok"
    /\ result.entries = <<>>
    /\ returned.request.n > 0
    /\ LET fd == returned.request.fd
       IN  /\ fd \in DOMAIN open_files
           /\ open_files[fd].path = <<"/">>
           /\ fd \in DOMAIN getdents_streams
           /\ Remaining(getdents_streams[fd]) = <<>>
           /\ getdents_streams[fd].current_index = 3

(***************************************************************************)
(* Resolve: resolve_path on the paths of requests, for a target whose      *)
(* file system has symbolic links                                          *)
(***************************************************************************)
\* the paths of up to MaxComponents components
RECURSIVE PathsOf(_)
PathsOf(n) ==
    IF n = 0 THEN {<<>>}
    ELSE PathsOf(n - 1)
             \cup {Append(path, component) :
                      path \in {p \in PathsOf(n - 1) : Len(p) = n - 1},
                      component \in {"d", "l", ".."}}

\* the symbolic links of a target with the root: none; a link l in the root
\* to its parent directory, to an absolute path, or to a second link m with
\* an absolute destination; a link l in the directory d that climbs twice
Layouts(root) ==
    LET l == join(root, <<"l">>)
        m == join(root, <<"m">>)
        dl == join(root, <<"d", "l">>)
    IN  {EmptyMap,
         [x \in {l} |-> <<"..">>],
         [x \in {l} |-> <<"/", "d">>],
         [x \in {l, m} |-> IF x = l THEN <<"m">> ELSE <<"/", "d">>],
         [x \in {dl} |-> <<"..", "..", "d">>]}

InitResolve ==
    /\ \E pid \in {None} \cup Pids : FileManager_new(pid)
    /\ links \in Layouts(root_path)
    /\ file_size = sizes(root_path)
    /\ requests_left = 0
    /\ resolved = NotResolved
    /\ mirrord_rules = NotListed
    /\ LayerIdle
    /\ SnifferIdle
    /\ ChainIdle

\* a method of the manager calls resolve_path(path, &self.root_path)
resolve(path) ==
    /\ resolved' = [path |-> path,
                    ok |-> resolve_path(path, root_path).ok,
                    out |-> resolve_path(path, root_path).path]
    /\ UNCHANGED file_vars
    /\ UNCHANGED sniffer_side
    /\ UNCHANGED chain_vars
    /\ UNCHANGED <<mirrord_rules, redirector, layer_vars>>

NextResolve == \E path \in PathsOf(MaxComponents) : resolve(path)

SpecResolve == InitResolve /\ [][NextResolve]_vars

\* the location is the root or below it
Inside(location, root) ==
    /\ Len(location) >= Len(root)
    /\ SubSeq(location, 1, Len(root)) = root

\* C17: the path of a successful resolve_path denotes a location inside the
\* root, whatever symbolic links the target has
C17_ResolvedInsideRoot ==
    resolved.ok =>
        LET location == walk(<<"/">>, resolved.out, MaxFollow)
        IN  location # ELOOP => Inside(location, root_path)

\* the kind of FileResponse that answers a kind of FileRequest
ResponseKind(kind) ==
    CASE kind = "OpenRelative" -> "Open"
      [] kind = "FdOpenDir" -> "OpenDir"
      [] kind = "MakeDirAt" -> "MakeDir"
      [] kind = "UnlinkAt" -> "Unlink"
      [] OTHER -> kind

\* C18: handle_message returns no response for Close and CloseDir, whether
\* the id is known or not, and for a request of any other kind exactly one
\* response, of the kind that answers the request
C18_OneResponsePerRequest ==
    [][FileStep =>
          LET request == returned'.request
          IN  IF request.kind \in {"Close", "CloseDir"}
                  THEN returned'.ret = "None"
                  ELSE /\ returned'.ret = "Some"
                       /\ returned'.kind = ResponseKind(request.kind)]_vars

\* C19: handle_message succeeds for every request, a failure of the request
\* is the error in the response it returns, and a request that failed
\* leaves the table of open files as it was
C19_FailuresInResponses ==
    [][FileStep =>
          /\ returned'.ret # "Err"
          /\ result'.is \notin {"Ok", "none"} =>
                 /\ returned'.ret = "Some"
                 /\ open_files' = open_files]_vars

(***************************************************************************)
(* IPTablesWrapper: the iptables commands on the nat table                 *)
(***************************************************************************)
\* the rule a chain of the agent is created with
RETURN == "-j RETURN"
\* a rule that redirects a port of the target
REDIRECT == "-m tcp -p tcp --dport 80 -j REDIRECT --to-ports 81"
\* the rule that sends the packets of a chain to the chain of the agent
JUMP == "-j MIRRORD_INPUT"
\* the chain a rule jumps to, if it jumps to a chain
JUMP_MESH == "-j MIRRORD_OUTPUT"
JUMP_STANDARD == "-j MIRRORD_STANDARD"
\* the rule that sends the packets of a chain to the chain of another program
JUMP_OTHER == "-j MIRRORD_INPUT_OLD"
target(rule) ==
    CASE rule = JUMP -> IPTABLE_PREROUTING
      [] rule = JUMP_MESH -> IPTABLE_MESH
      [] rule = JUMP_STANDARD -> IPTABLE_STANDARD
      [] rule = JUMP_OTHER -> OTHER_CHAIN
      [] OTHER -> None

\* a rule of another chain jumps to the chain
referenced(table, name) ==
    \E other \in DOMAIN table \ {name} :
        \E i \in 1 .. Len(table[other]) : target(table[other][i]) = name

\* the command accepts the rule for the chain: a rule jumps to a chain that
\* exists and is not the chain of the rule
accepted(table, name, rule) ==
    /\ name \in DOMAIN table
    /\ target(rule) # None => target(rule) \in DOMAIN table \ {name}

\* the result of a command, and the table it leaves
Done(table) == [ok |-> TRUE, table |-> table]
Failed(table) == [ok |-> FALSE, table |-> table]

\* the iptables commands of the wrapper; a command can fail for a reason
\* outside the table (the xtables lock is held, the kernel refuses)
Commands ==
    {"new_chain", "append", "flush_chain", "delete_chain", "insert", "delete"}

\* new_chain, which fails for a chain that exists, then append of RETURN
create_chain(table, name, failing) ==
    IF name \in DOMAIN table \/ failing = "new_chain"
        THEN Failed(table)
        ELSE IF failing = "append"
                 THEN Failed(insert(table, name, <<>>))
                 ELSE Done(insert(table, name, <<RETURN>>))

\* flush_chain, which fails for a chain that does not exist, then
\* delete_chain, which fails for a chain that a rule jumps to
remove_chain(table, name, failing) ==
    IF name \notin DOMAIN table \/ failing = "flush_chain"
        THEN Failed(table)
        ELSE LET flushed == [table EXCEPT ![name] = <<>>]
             IN  IF referenced(flushed, name) \/ failing = "delete_chain"
                     THEN Failed(flushed)
                     ELSE Done(remove(flushed, name))

\* append
IPTables_add_rule(table, name, rule, failing) ==
    IF accepted(table, name, rule) /\ failing # "append"
        THEN Done([table EXCEPT ![name] = Append(@, rule)])
        ELSE Failed(table)

\* insert at a rule number, from 1 to one past the last rule
insert_rule(table, name, rule, index, failing) ==
    IF accepted(table, name, rule) /\ failing # "insert"
           /\ index >= 1 /\ index <= Len(table[name]) + 1
        THEN Done([table EXCEPT
                      ![name] = SubSeq(@, 1, index - 1) \o <<rule>>
                                    \o SubSeq(@, index, Len(@))])
        ELSE Failed(table)

\* list: the line that declares the chain, then a line for each rule
list_rules(table, name) ==
    IF name \in DOMAIN table
        THEN [ok |-> TRUE, lines |-> <<"-N">> \o table[name]]
        ELSE [ok |-> FALSE, lines |-> <<>>]

\* delete the first rule of the chain that is the rule; fails without one
IPTables_remove_rule(table, name, rule, failing) ==
    IF /\ name \in DOMAIN table /\ failing # "delete"
       /\ \E i \in 1 .. Len(table[name]) : table[name][i] = rule
        THEN LET first == CHOOSE i \in 1 .. Len(table[name]) :
                              /\ table[name][i] = rule
                              /\ \A j \in 1 .. i - 1 : table[name][j] # rule
             IN  Done([table EXCEPT
                          ![name] = SubSeq(@, 1, first - 1)
                                        \o SubSeq(@, first + 1, Len(@))])
        ELSE Failed(table)

(***************************************************************************)
(* IPTableChain                                                            *)
(***************************************************************************)
\* a call on the nat table or on the chain
chain_step ==
    /\ chain_steps > 0
    /\ chain_steps' = chain_steps - 1
    /\ UNCHANGED calls
    /\ UNCHANGED beside_chain

\* IPTableChain::create(inner, chain_name)
create(chain_name, failing) ==
    /\ chain.is # "alive"
    /\ chain_step
    /\ LET created == create_chain(nat, chain_name, failing)
       IN  /\ nat' = created.table
           /\ IF created.ok
                  THEN /\ chain' = [is |-> "alive", by |-> "create",
                                    chain_size |-> 1, inner_used |-> FALSE,
                                    ret |-> 0]
                       /\ nat_before' = nat
                  ELSE /\ chain' = [chain EXCEPT !.ret = -1]
                       /\ UNCHANGED nat_before

\* IPTableChain::load(inner, chain_name)
load(chain_name) ==
    /\ chain.is # "alive"
    /\ chain_step
    /\ LET listed == list_rules(nat, chain_name)
           existing_rules == Len(listed.lines)
       IN  IF listed.ok /\ existing_rules # 0
               THEN /\ chain' = [is |-> "alive", by |-> "load",
                                 chain_size |-> existing_rules - 1,
                                 inner_used |-> FALSE, ret |-> 0]
                    /\ nat_before' = nat
               ELSE /\ chain' = [chain EXCEPT !.ret = -1]
                    /\ UNCHANGED nat_before
    /\ UNCHANGED nat

\* add_rule that leaves the counter raised when the insert fails
add_rule_NoRollback(rule, failing) ==
    /\ chain.is = "alive"
    /\ chain_step
    /\ LET inserted == insert_rule(nat, IPTABLE_PREROUTING, rule,
                                   chain.chain_size, failing)
       IN  /\ nat' = inserted.table
           /\ chain' = [chain EXCEPT !.chain_size = @ + 1,
                                     !.ret = IF inserted.ok THEN chain.chain_size + 1 ELSE -1]
    /\ UNCHANGED nat_before

\* IPTableChain::add_rule(rule): fetch_add gives the rule number, and a
\* failed insert takes the increment back
add_rule(rule, failing) ==
    /\ chain.is = "alive"
    /\ chain_step
    /\ LET inserted == insert_rule(nat, IPTABLE_PREROUTING, rule,
                                   chain.chain_size, failing)
       IN  /\ nat' = inserted.table
           /\ chain' = IF inserted.ok
                           THEN [chain EXCEPT !.chain_size = @ + 1,
                                             !.ret = chain.chain_size + 1]
                           ELSE [chain EXCEPT !.ret = -1]
    /\ UNCHANGED nat_before

\* IPTableChain::remove_rule(rule)
remove_rule(rule, failing) ==
    /\ chain.is = "alive"
    /\ chain_step
    /\ LET removed == IPTables_remove_rule(nat, IPTABLE_PREROUTING, rule, failing)
       IN  /\ nat' = removed.table
           /\ chain' = IF removed.ok
                           THEN [chain EXCEPT !.chain_size = @ - 1, !.ret = 0]
                           ELSE [chain EXCEPT !.ret = -1]
    /\ UNCHANGED nat_before

\* chain.inner().add_rule(name, rule): the owner of the chain mounts it
inner_add_rule(name, rule, failing) ==
    /\ chain.is = "alive"
    /\ chain_step
    /\ nat' = IPTables_add_rule(nat, name, rule, failing).table
    /\ chain' = [chain EXCEPT !.inner_used = TRUE, !.ret = 0]
    /\ UNCHANGED nat_before

\* chain.inner().remove_rule(name, rule): the owner of the chain unmounts it
inner_remove_rule(name, rule, failing) ==
    /\ chain.is = "alive"
    /\ chain_step
    /\ nat' = IPTables_remove_rule(nat, name, rule, failing).table
    /\ chain' = [chain EXCEPT !.inner_used = TRUE, !.ret = 0]
    /\ UNCHANGED nat_before

\* Drop for IPTableChain: what remove_chain returns is discarded
drop_chain(failing) ==
    /\ chain.is = "alive"
    /\ chain_step
    /\ nat' = remove_chain(nat, IPTABLE_PREROUTING, failing).table
    /\ chain' = [chain EXCEPT !.is = "dropped", !.ret = 0]
    /\ UNCHANGED nat_before

\* the nat table an agent finds: without its chain, or with the chain that
\* an agent before it left behind, mounted or not
Tables ==
    {EmptyTable,
     [name \in {PREROUTING, IPTABLE_PREROUTING} |->
         IF name = PREROUTING THEN <<>> ELSE <<REDIRECT, RETURN>>],
     [name \in {PREROUTING, IPTABLE_PREROUTING} |->
         IF name = PREROUTING THEN <<JUMP>> ELSE <<RETURN>>]}

InitChain ==
    /\ nat \in Tables
    /\ chain = NoChain
    /\ nat_before = nat
    /\ chain_steps = MaxChainSteps
    /\ calls = [t \in ThreadIds |-> NoCall]
    /\ redirector = NoRedirector
    /\ SnifferIdle
    /\ FilesIdle
    /\ resolved = NotResolved
    /\ mirrord_rules = NotListed
    /\ LayerIdle

NextChain ==
    \/ \E failing \in {None, "new_chain", "append"} :
           create(IPTABLE_PREROUTING, failing)
    \/ load(IPTABLE_PREROUTING)
    \/ \E rule \in {REDIRECT, RETURN}, failing \in {None, "insert"} :
           add_rule(rule, failing)
    \/ \E rule \in {REDIRECT, RETURN}, failing \in {None, "delete"} :
           remove_rule(rule, failing)
    \/ \E failing \in {None, "append"} :
           inner_add_rule(PREROUTING, JUMP, failing)
    \/ \E failing \in {None, "delete"} :
           inner_remove_rule(PREROUTING, JUMP, failing)
    \/ \E failing \in {None, "flush_chain", "delete_chain"} : drop_chain(failing)

SpecChain == InitChain /\ [][NextChain]_vars

\* the handle is alive and IPTableChain::create made it
Created == chain.is = "alive" /\ chain.by = "create"

\* C20: while a handle that IPTableChain::create made is alive its chain is
\* in the nat table, and right after the creation the chain has the RETURN
\* rule and nothing else; after the drop of the handle the chain is not in
\* the table, and the table is what it was before the creation when its
\* rules were added and removed through the handle alone
C20_CreateDropRoundTrip ==
    /\ [](Created => IPTABLE_PREROUTING \in DOMAIN nat)
    /\ [][~Created /\ Created' =>
              /\ IPTABLE_PREROUTING \notin DOMAIN nat
              /\ nat' = insert(nat, IPTABLE_PREROUTING, <<RETURN>>)]_vars
    /\ [][Created /\ chain'.is = "dropped" =>
              /\ IPTABLE_PREROUTING \notin DOMAIN nat'
              /\ ~chain.inner_used => nat' = nat_before]_vars

\* C21: a creation that fails leaves no chain in the table that was not
\* there (no chain without a handle), and after the drop of a handle its
\* chain is not in the table, whichever iptables command failed
C21_ChainsOwnedOnFailure ==
    /\ [][chain.is # "alive" /\ chain'.is # "alive" =>
              DOMAIN nat' \subseteq DOMAIN nat]_vars
    /\ [][chain.is = "alive" /\ chain'.is = "dropped" =>
              IPTABLE_PREROUTING \notin DOMAIN nat']_vars

\* the rules of the chain of the handle
rules_of(table) == table[IPTABLE_PREROUTING]
\* the chain ends with the RETURN rule
ReturnLast(table) ==
    /\ rules_of(table) # <<>>
    /\ rules_of(table)[Len(rules_of(table))] = RETURN
\* how often the rule is in the chain
copies(table, rule) ==
    Cardinality({i \in 1 .. Len(rules_of(table)) : rules_of(table)[i] = rule})
\* the handle that create made is used
Used == Created /\ Created' /\ chain_steps' = chain_steps - 1

\* what add_rule and remove_rule do to the counter: a fresh handle counts 1;
\* a call that puts a rule into the chain puts it at the number the counter
\* had, raises the counter by one and returns it; a call that takes a rule
\* out lowers the counter by one; every other call leaves the counter
CountsCalls ==
    /\ ~Created /\ Created' => chain'.chain_size = 1
    /\ Used =>
          LET old == rules_of(nat)
              new == rules_of(nat')
              index == chain.chain_size
          IN  /\ chain'.chain_size - chain.chain_size = Len(new) - Len(old)
              /\ Len(new) > Len(old) =>
                     /\ index >= 1
                     /\ SubSeq(new, 1, index - 1) = SubSeq(old, 1, index - 1)
                     /\ SubSeq(new, index + 1, Len(new)) = SubSeq(old, index, Len(old))
                     /\ chain'.ret = index + 1
              /\ Len(new) <= Len(old) => chain'.ret \in {0, -1}

REDIRECT_OTHER == "-m tcp -p tcp --dport 82 -j REDIRECT --to-ports 83"

\* a step of a thread in a method of the chain
thread_step(t, call) ==
    /\ chain.is = "alive"
    /\ calls' = [calls EXCEPT ![t] = call]
    /\ UNCHANGED <<nat_before, chain_steps>>
    /\ UNCHANGED beside_chain

\* add_rule: self.chain_size.fetch_add(1, Relaxed), the rule number
add_rule_fetch_add(t, rule) ==
    /\ calls[t].pc = "idle"
    /\ chain_steps > 0
    /\ calls' = [calls EXCEPT ![t] = [pc |-> "insert_rule", rule |-> rule,
                                      index |-> chain.chain_size, ret |-> 0]]
    /\ chain' = [chain EXCEPT !.chain_size = @ + 1]
    /\ chain_steps' = chain_steps - 1
    /\ chain.is = "alive"
    /\ UNCHANGED <<nat, nat_before>>
    /\ UNCHANGED beside_chain

\* add_rule: self.inner.insert_rule(&self.chain_name, rule, index)
add_rule_insert_rule(t, failing) ==
    /\ calls[t].pc = "insert_rule"
    /\ LET inserted == insert_rule(nat, IPTABLE_PREROUTING, calls[t].rule,
                                   calls[t].index, failing)
       IN  /\ nat' = inserted.table
           /\ thread_step(t, [calls[t] EXCEPT
                                 !.pc = IF inserted.ok THEN "load" ELSE "fetch_sub"])
    /\ UNCHANGED chain

\* add_rule: .map(|_| self.chain_size.load(Relaxed)), and the call returns
add_rule_load(t) ==
    /\ calls[t].pc = "load"
    /\ thread_step(t, [NoCall EXCEPT !.ret = chain.chain_size])
    /\ UNCHANGED <<nat, chain>>

\* add_rule: .inspect_err(|_| self.chain_size.fetch_sub(1, Relaxed)), and
\* the call returns the error
add_rule_fetch_sub(t) ==
    /\ calls[t].pc = "fetch_sub"
    /\ thread_step(t, [NoCall EXCEPT !.ret = -1])
    /\ chain' = [chain EXCEPT !.chain_size = @ - 1]
    /\ UNCHANGED nat

\* remove_rule: self.inner.remove_rule(&self.chain_name, rule)?
remove_rule_remove_rule(t, rule, failing) ==
    /\ calls[t].pc = "idle"
    /\ chain_steps > 0
    /\ chain.is = "alive"
    /\ LET removed == IPTables_remove_rule(nat, IPTABLE_PREROUTING, rule, failing)
       IN  /\ nat' = removed.table
           /\ calls' = [calls EXCEPT
                           ![t] = IF removed.ok
                                      THEN [pc |-> "removed", rule |-> rule,
                                            index |-> 0, ret |-> 0]
                                      ELSE [NoCall EXCEPT !.ret = -1]]
    /\ chain_steps' = chain_steps - 1
    /\ UNCHANGED <<chain, nat_before>>
    /\ UNCHANGED beside_chain

\* remove_rule: self.chain_size.fetch_sub(1, Relaxed), and the call returns
remove_rule_fetch_sub(t) ==
    /\ calls[t].pc = "removed"
    /\ thread_step(t, NoCall)
    /\ chain' = [chain EXCEPT !.chain_size = @ - 1]
    /\ UNCHANGED nat

\* a chain that IPTableChain::create has just made, and its handle
InitShared ==
    /\ nat = insert(EmptyTable, IPTABLE_PREROUTING, <<RETURN>>)
    /\ chain = [is |-> "alive", by |-> "create", chain_size |-> 1,
                inner_used |-> FALSE, ret |-> 0]
    /\ nat_before = EmptyTable
    /\ chain_steps = MaxCalls
    /\ calls = [t \in ThreadIds |-> NoCall]
    /\ redirector = NoRedirector
    /\ SnifferIdle
    /\ FilesIdle
    /\ resolved = NotResolved
    /\ mirrord_rules = NotListed
    /\ LayerIdle

NextShared ==
    \E t \in ThreadIds :
        \/ \E rule \in {REDIRECT, REDIRECT_OTHER} : add_rule_fetch_add(t, rule)
        \/ \E failing \in {None, "insert"} : add_rule_insert_rule(t, failing)
        \/ add_rule_load(t)
        \/ add_rule_fetch_sub(t)
        \/ \E rule \in {REDIRECT, REDIRECT_OTHER}, failing \in {None, "delete"} :
               remove_rule_remove_rule(t, rule, failing)
        \/ remove_rule_fetch_sub(t)

SpecShared == InitShared /\ [][NextShared]_vars

\* the calls of add_rule that have their rule number and have not returned
InFlight == {t \in ThreadIds : calls[t].pc \in {"insert_rule", "load", "fetch_sub"}}
\* the thread inserts its rule
Inserts(t) == calls[t].pc = "insert_rule" /\ calls'[t].pc = "load"

\* C23: however the calls of add_rule and remove_rule on one handle
\* interleave, a rule is inserted at a number that no other call in flight
\* has and that is in front of RETURN, RETURN stays the last rule of the
\* chain, and when every call has returned the counter is the number of
\* rules of the chain
C23_CounterLinearizesCalls ==
    /\ [][\A t \in ThreadIds :
             Inserts(t) =>
                 /\ \A other \in InFlight \ {t} : calls[other].index # calls[t].index
                 /\ calls[t].index <= Len(rules_of(nat))]_vars
    /\ [](ReturnLast(nat))
    /\ []((\A t \in ThreadIds : calls[t].pc = "idle") =>
              chain.chain_size = Len(rules_of(nat)))

(***************************************************************************)
(* SafeIpTables::list_mirrord_rules                                        *)
(***************************************************************************)
\* A line of text is a sequence of pieces: words and parts of words, and
\* the space between words. A name that contains another name has the other
\* name as one of its pieces.
Space == " "

\* the pieces of the name of a chain
name_text(name) ==
    IF name = OTHER_CHAIN THEN <<IPTABLE_PREROUTING, "_OLD">> ELSE <<name>>
\* the pieces of a rule
rule_text(rule) ==
    CASE target(rule) # None -> <<"-j", Space>> \o name_text(target(rule))
      [] rule = RETURN -> <<"-j", Space, "RETURN">>
      [] OTHER -> <<rule>>

\* the chains of a nat table in the order iptables lists them
ChainOrder ==
    <<PREROUTING, IPTABLE_PREROUTING, IPTABLE_MESH, IPTABLE_STANDARD, OTHER_CHAIN>>
RECURSIVE declarations(_, _)
\* the line that declares each chain: the policy of a built-in chain, -N
\* for a chain that was made
declarations(table, order) ==
    IF order = <<>> THEN <<>>
    ELSE LET name == Head(order)
             line == IF name = PREROUTING
                         THEN <<"-P", Space, name, Space, "ACCEPT">>
                         ELSE <<"-N", Space>> \o name_text(name)
         IN  (IF name \in DOMAIN table THEN <<line>> ELSE <<>>)
                 \o declarations(table, Tail(order))
RECURSIVE appends(_, _)
\* a line -A for each rule of each chain
appends(table, order) ==
    IF order = <<>> THEN <<>>
    ELSE LET name == Head(order)
             lines == [i \in 1 .. Len(table[name]) |->
                          <<"-A", Space>> \o name_text(name) \o <<Space>>
                              \o rule_text(table[name][i])]
         IN  (IF name \in DOMAIN table THEN lines ELSE <<>>)
                 \o appends(table, Tail(order))

\* IPTablesWrapper::list_table: the lines of `iptables -t nat -S`
list_table(table) == declarations(table, ChainOrder) \o appends(table, ChainOrder)

\* str::contains for the name of a chain of the agent, which is one piece
contains(line, name) == \E i \in 1 .. Len(line) : line[i] = name

\* the names list_mirrord_rules looks for
MirrordChains == {IPTABLE_PREROUTING, IPTABLE_MESH, IPTABLE_STANDARD}

\* list_mirrord_rules that looks for the first chain only
list_mirrord_rules_OnlyInput(table, failing) ==
    IF failing = "list_table"
        THEN [is |-> "Err", rules |-> <<>>]
        ELSE LET kept(line) == contains(line, IPTABLE_PREROUTING)
             IN  [is |-> "Ok", rules |-> SelectSeq(list_table(table), kept)]

\* SafeIpTables::list_mirrord_rules(ipt)
list_mirrord_rules(table, failing) ==
    IF failing = "list_table"
        THEN [is |-> "Err", rules |-> <<>>]
        ELSE LET kept(line) == \E name \in MirrordChains : contains(line, name)
             IN  [is |-> "Ok", rules |-> SelectSeq(list_table(table), kept)]

\* the agent looks for the rules an agent before it has left
list_rules_call(failing) ==
    /\ mirrord_rules' = list_mirrord_rules(nat, failing)
    /\ UNCHANGED chain_vars
    /\ UNCHANGED <<sniffer_side, file_vars, resolved, redirector, layer_vars>>

\* the rules a chain that was made can have
ChainRules ==
    {[i \in 1 .. n |-> IF i = n THEN RETURN ELSE REDIRECT] : n \in 0 .. MaxRules}
\* the nat tables the agent can find: any chains of ChainOrder, and a
\* built-in chain that is empty or jumps to a chain that is there
ListedTables ==
    {table \in UNION {[names \cup {PREROUTING} -> ChainRules \cup {<<JUMP>>, <<JUMP_OTHER>>}] :
                         names \in SUBSET (Range(ChainOrder) \ {PREROUTING})} :
        /\ \A name \in DOMAIN table \ {PREROUTING} : table[name] \in ChainRules
        /\ table[PREROUTING] \in {<<>>, <<JUMP>>, <<JUMP_OTHER>>}
        /\ table[PREROUTING] = <<JUMP>> => IPTABLE_PREROUTING \in DOMAIN table
        /\ table[PREROUTING] = <<JUMP_OTHER>> => OTHER_CHAIN \in DOMAIN table}

InitListing ==
    /\ nat \in ListedTables
    /\ chain = NoChain
    /\ nat_before = nat
    /\ chain_steps = 0
    /\ calls = [t \in ThreadIds |-> NoCall]
    /\ redirector = NoRedirector
    /\ mirrord_rules = NotListed
    /\ LayerIdle
    /\ SnifferIdle
    /\ FilesIdle
    /\ resolved = NotResolved

NextListing == \E failing \in {None, "list_table"} : list_rules_call(failing)

SpecListing == InitListing /\ [][NextListing]_vars

\* a word of the line is the name
names_chain(line, name) ==
    \E i \in 1 .. Len(line) :
        /\ line[i] = name
        /\ i > 1 => line[i - 1] = Space
        /\ i < Len(line) => line[i + 1] = Space

\* the lines of the sequence that are wanted, in their order
Selected(lines, wanted(_)) ==
    LET keep == {i \in 1 .. Len(lines) : wanted(lines[i])}
        nth(k) == CHOOSE i \in keep : Cardinality({j \in keep : j <= i}) = k
    IN  [k \in 1 .. Cardinality(keep) |-> lines[nth(k)]]

\* the line names a chain of the agent
NamesMirrordChain(line) == \E name \in MirrordChains : names_chain(line, name)
\* the line contains the name of a chain of the agent
ContainsMirrordChain(line) == \E name \in MirrordChains : contains(line, name)

OUTPUT == "OUTPUT"
\* the chain of the sidecar of a mesh, and the jump to it in OUTPUT
PROXY_INIT_OUTPUT == "PROXY_INIT_OUTPUT"
JUMP_PROXY == "-j PROXY_INIT_OUTPUT"
\* the first rule of a chain of outgoing packets: the agent's own packets
GID_RETURN == "-m owner --gid-owner 1000 -p tcp -j RETURN"
\* the first rule of MIRRORD_INPUT in a mesh: the ports the sidecar skips
SKIP_PORTS == "-m multiport -p tcp ! --dports 22 -j RETURN"
REDIRECT_LO == "-o lo -m tcp -p tcp --dport 80 -j REDIRECT --to-ports 81"
REDIRECT_OTHER_LO == "-o lo -m tcp -p tcp --dport 82 -j REDIRECT --to-ports 83"
\* the redirects (redirected_port, target_port) that are asked for
Redirects == {"80 to 81", "82 to 83"}
\* the rule of a redirect in MIRRORD_INPUT and in the chain of outgoing packets
prerouting_rule(redirect) == IF redirect = "80 to 81" THEN REDIRECT ELSE REDIRECT_OTHER
output_rule(redirect) == IF redirect = "80 to 81" THEN REDIRECT_LO ELSE REDIRECT_OTHER_LO

\* a call of a method of IPTables
Call(op, name, rule, index) ==
    [op |-> op, chain |-> name, rule |-> rule, index |-> index, ok |-> TRUE]
\* what the call does to the table
exec(table, call) ==
    CASE call.op = "create_chain" -> create_chain(table, call.chain, None)
      [] call.op = "remove_chain" -> remove_chain(table, call.chain, None)
      [] call.op = "add_rule" ->
             IPTables_add_rule(table, call.chain, call.rule, None)
      [] call.op = "insert_rule" ->
             insert_rule(table, call.chain, call.rule, call.index, None)
      [] call.op = "remove_rule" ->
             IPTables_remove_rule(table, call.chain, call.rule, None)

RECURSIVE run(_, _, _)
\* the calls in their order, up to the first that fails (the ? operator)
run(table, log, todo) ==
    IF todo = <<>>
        THEN [ok |-> TRUE, table |-> table, log |-> log]
        ELSE LET done == exec(table, Head(todo))
                 logged == Append(log, [Head(todo) EXCEPT !.ok = done.ok])
             IN  IF done.ok
                     THEN run(done.table, logged, Tail(todo))
                     ELSE [ok |-> FALSE, table |-> done.table, log |-> logged]

RECURSIVE run_each(_, _, _)
\* the calls in their order, each whatever the one before it returned
run_each(table, log, todo) ==
    IF todo = <<>>
        THEN [ok |-> TRUE, table |-> table, log |-> log]
        ELSE LET done == exec(table, Head(todo))
             IN  run_each(done.table,
                          Append(log, [Head(todo) EXCEPT !.ok = done.ok]),
                          Tail(todo))

\* MeshVendor::detect finds the chain of a sidecar in OUTPUT
detect(table) == \E i \in 1 .. Len(table[OUTPUT]) : table[OUTPUT][i] = JUMP_PROXY

\* the chain of outgoing packets of a strategy, and the jump to it
output_chain(strategy) == IF strategy = "Mesh" THEN IPTABLE_MESH ELSE IPTABLE_STANDARD
output_jump(strategy) == IF strategy = "Mesh" THEN JUMP_MESH ELSE JUMP_STANDARD

\* MeshRedirect::create and StandardRedirect::create: the chain of incoming
\* packets (with the skipped ports in a mesh), then the chain of outgoing
\* packets with its first rule
create_calls(strategy) ==
    <<Call("create_chain", IPTABLE_PREROUTING, "none", 0)>>
        \o (IF strategy = "Mesh"
                THEN <<Call("insert_rule", IPTABLE_PREROUTING, SKIP_PORTS, 1)>>
                ELSE <<>>)
        \o (IF strategy = "PrerouteFallback" THEN <<>>
            ELSE <<Call("create_chain", output_chain(strategy), "none", 0),
                   Call("insert_rule", output_chain(strategy), GID_RETURN, 1)>>)

\* mount_entrypoint: the jumps from the built-in chains
mount_calls(strategy) ==
    <<Call("add_rule", PREROUTING, JUMP, 0)>>
        \o (IF strategy = "PrerouteFallback" THEN <<>>
            ELSE <<Call("add_rule", OUTPUT, output_jump(strategy), 0)>>)

\* unmount_entrypoint that leaves the jump in PREROUTING
unmount_calls_OutputOnly(strategy) ==
    IF strategy = "PrerouteFallback" THEN <<>>
    ELSE <<Call("remove_rule", OUTPUT, output_jump(strategy), 0)>>

\* unmount_entrypoint: the jumps are taken out
unmount_calls(strategy) ==
    <<Call("remove_rule", PREROUTING, JUMP, 0)>>
        \o (IF strategy = "PrerouteFallback" THEN <<>>
            ELSE <<Call("remove_rule", OUTPUT, output_jump(strategy), 0)>>)

\* the handles of a strategy are dropped: Drop for IPTableChain, each
drop_calls(strategy) ==
    <<Call("remove_chain", IPTABLE_PREROUTING, "none", 0)>>
        \o (IF strategy = "PrerouteFallback" THEN <<>>
            ELSE <<Call("remove_chain", output_chain(strategy), "none", 0)>>)

\* the handles that a failed create had made are dropped
RECURSIVE unwind(_, _)
unwind(log, i) ==
    IF i = 0 THEN <<>>
    ELSE (IF log[i].op = "create_chain" /\ log[i].ok
              THEN <<Call("remove_chain", log[i].chain, "none", 0)>>
              ELSE <<>>)
             \o unwind(log, i - 1)

\* the chain_size of the chain after the calls that were made on it
size_after(log, name) ==
    1 + Cardinality({i \in 1 .. Len(log) :
                        log[i].op = "insert_rule" /\ log[i].chain = name /\ log[i].ok})
      - Cardinality({i \in 1 .. Len(log) :
                        /\ log[i].op = "remove_rule" /\ log[i].chain = name
                        /\ log[i].ok})

\* a call on the SafeIpTables
redirector_step ==
    /\ chain_steps > 0
    /\ chain_steps' = chain_steps - 1
    /\ UNCHANGED <<chain, calls>>
    /\ UNCHANGED <<sniffer_side, file_vars, resolved, mirrord_rules, layer_vars>>

\* the redirect that create has built is mounted
mounted_redirect(strategy, built) ==
    LET mount == run(built.table, built.log, mount_calls(strategy))
    IN  IF mount.ok
            THEN /\ nat' = mount.table
                 /\ redirector' = [is |-> "alive", strategy |-> strategy,
                                   preroute |-> size_after(mount.log, IPTABLE_PREROUTING),
                                   output |-> size_after(mount.log, output_chain(strategy)),
                                   mounted |-> TRUE, redirects |-> {},
                                   log |-> mount.log,
                                   wrapped |-> FALSE, tried |-> <<>>,
                                   flush_connections |-> FALSE]
            ELSE LET dropped == run_each(mount.table, mount.log, drop_calls(strategy))
                 IN  /\ nat' = dropped.table
                     /\ redirector' = [redirector EXCEPT !.log = dropped.log]

\* SafeIpTables::create(ipt, false, None, false): the redirect of the mesh
\* that is detected, else the standard redirect, else the fallback; then
\* mount_entrypoint
SafeIpTables_create ==
    /\ redirector.is = "none"
    /\ redirector_step
    /\ nat_before' = nat
    /\ LET strategy == IF detect(nat) THEN "Mesh" ELSE "Standard"
           first == run(nat, redirector.log, create_calls(strategy))
           undone == run_each(first.table, first.log, unwind(first.log, Len(first.log)))
           fallback == run(undone.table, undone.log, create_calls("PrerouteFallback"))
       IN  IF first.ok
               THEN mounted_redirect(strategy, first)
               ELSE IF strategy = "Standard" /\ fallback.ok
                        THEN mounted_redirect("PrerouteFallback", fallback)
                        ELSE /\ nat' = IF strategy = "Standard"
                                           THEN fallback.table ELSE undone.table
                             /\ redirector' =
                                    [redirector EXCEPT
                                        !.log = IF strategy = "Standard"
                                                    THEN fallback.log ELSE undone.log]

\* SafeIpTables::add_redirect(redirected_port, target_port)
SafeIpTables_add_redirect(redirect) ==
    /\ redirector.is = "alive"
    /\ redirect \notin redirector.redirects
    /\ redirector_step
    /\ LET strategy == redirector.strategy
           todo == <<Call("insert_rule", IPTABLE_PREROUTING,
                          prerouting_rule(redirect), redirector.preroute)>>
                       \o (IF strategy = "PrerouteFallback" THEN <<>>
                           ELSE <<Call("insert_rule", output_chain(strategy),
                                       output_rule(redirect), redirector.output)>>)
           added == run(nat, redirector.log, todo)
       IN  /\ nat' = added.table
           /\ redirector' =
                  [redirector EXCEPT
                      !.log = added.log,
                      !.preroute = size_after(added.log, IPTABLE_PREROUTING),
                      !.output = size_after(added.log, output_chain(strategy)),
                      !.redirects = IF added.ok THEN @ \cup {redirect} ELSE @]
    /\ UNCHANGED nat_before

\* SafeIpTables::remove_redirect(redirected_port, target_port)
SafeIpTables_remove_redirect(redirect) ==
    /\ redirector.is = "alive"
    /\ redirector_step
    /\ LET strategy == redirector.strategy
           todo == <<Call("remove_rule", IPTABLE_PREROUTING,
                          prerouting_rule(redirect), 0)>>
                       \o (IF strategy = "PrerouteFallback" THEN <<>>
                           ELSE <<Call("remove_rule", output_chain(strategy),
                                       output_rule(redirect), 0)>>)
           removed == run(nat, redirector.log, todo)
       IN  /\ nat' = removed.table
           /\ redirector' =
                  [redirector EXCEPT
                      !.log = removed.log,
                      !.preroute = size_after(removed.log, IPTABLE_PREROUTING),
                      !.output = size_after(removed.log, output_chain(strategy)),
                      !.redirects = IF removed.ok THEN @ \ {redirect} ELSE @]
    /\ UNCHANGED nat_before

\* SafeIpTables::cleanup(): unmount_entrypoint
SafeIpTables_cleanup ==
    /\ redirector.is = "alive"
    /\ redirector_step
    /\ LET unmounted == run(nat, redirector.log, unmount_calls(redirector.strategy))
       IN  /\ nat' = unmounted.table
           /\ redirector' = [redirector EXCEPT
                                !.log = unmounted.log,
                                !.mounted = IF unmounted.ok THEN FALSE ELSE @]
    /\ UNCHANGED nat_before

\* the SafeIpTables is dropped, and with it its chains
SafeIpTables_drop ==
    /\ redirector.is = "alive"
    /\ redirector_step
    /\ LET dropped == run_each(nat, redirector.log, drop_calls(redirector.strategy))
       IN  /\ nat' = dropped.table
           /\ redirector' = [redirector EXCEPT !.log = dropped.log, !.is = "dropped"]
    /\ UNCHANGED nat_before

\* the nat table of a pod without a mesh, of a pod with the sidecar of a
\* mesh, and of a pod in which an agent has left its chain of outgoing packets
RedirectorTables ==
    {[name \in {PREROUTING, OUTPUT} |-> <<>>],
     [name \in {PREROUTING, OUTPUT, PROXY_INIT_OUTPUT} |->
         IF name = OUTPUT THEN <<JUMP_PROXY>> ELSE <<>>],
     [name \in {PREROUTING, OUTPUT, IPTABLE_STANDARD} |->
         IF name = IPTABLE_STANDARD THEN <<RETURN>> ELSE <<>>]}

InitRedirector ==
    /\ nat \in RedirectorTables
    /\ nat_before = nat
    /\ chain = NoChain
    /\ chain_steps = MaxRedirectorCalls
    /\ calls = [t \in ThreadIds |-> NoCall]
    /\ redirector = NoRedirector
    /\ mirrord_rules = NotListed
    /\ LayerIdle
    /\ SnifferIdle
    /\ FilesIdle
    /\ resolved = NotResolved

NextRedirector ==
    \/ SafeIpTables_create
    \/ \E redirect \in Redirects : SafeIpTables_add_redirect(redirect)
    \/ \E redirect \in Redirects : SafeIpTables_remove_redirect(redirect)
    \/ SafeIpTables_cleanup
    \/ SafeIpTables_drop

SpecRedirector == InitRedirector /\ [][NextRedirector]_vars

\* the places of the log where the call was made and succeeded
Succeeded(op, name, rule) ==
    {i \in 1 .. Len(redirector.log) :
        /\ redirector.log[i].op = op
        /\ redirector.log[i].chain = name
        /\ redirector.log[i].rule = rule
        /\ redirector.log[i].ok}

\* the redirector of the standard or of the mesh strategy was dropped after
\* its redirects were removed and cleanup had succeeded
FullLifecycle ==
    /\ redirector.is = "dropped"
    /\ redirector.strategy \in {"Standard", "Mesh"}
    /\ ~redirector.mounted
    /\ redirector.redirects = {}

\* C25: after the full lifecycle every redirect rule that was inserted was
\* removed once, each jump from a built-in chain was removed exactly once
\* and each chain of the redirector was removed exactly once, after the
\* jump to it; the nat table is what it was before the creation
C25_LifecycleRemovesAll ==
    FullLifecycle =>
        LET strategy == redirector.strategy
            jump_in == Succeeded("remove_rule", PREROUTING, JUMP)
            jump_out == Succeeded("remove_rule", OUTPUT, output_jump(strategy))
            chain_in == Succeeded("remove_chain", IPTABLE_PREROUTING, "none")
            chain_out == Succeeded("remove_chain", output_chain(strategy), "none")
        IN  /\ \A redirect \in Redirects :
                   /\ Cardinality(Succeeded("insert_rule", IPTABLE_PREROUTING,
                                            prerouting_rule(redirect)))
                          = Cardinality(Succeeded("remove_rule", IPTABLE_PREROUTING,
                                                  prerouting_rule(redirect)))
                   /\ Cardinality(Succeeded("insert_rule", output_chain(strategy),
                                            output_rule(redirect)))
                          = Cardinality(Succeeded("remove_rule", output_chain(strategy),
                                                  output_rule(redirect)))
            /\ Cardinality(jump_in) = 1 /\ Cardinality(jump_out) = 1
            /\ Cardinality(chain_in) = 1 /\ Cardinality(chain_out) = 1
            /\ \A i \in jump_in : \A j \in chain_in : i < j
            /\ \A i \in jump_out : \A j \in chain_out : i < j
            /\ nat = nat_before

\* a redirector of the mesh strategy went through the full lifecycle with
\* a redirect that was added and removed
C25_Witness ==
    /\ FullLifecycle
    /\ redirector.strategy = "Mesh"
    /\ Succeeded("remove_rule", IPTABLE_MESH, REDIRECT_LO) # {}

(***************************************************************************)
(* The layer across fork: the global PROXY_CONNECTION of each process      *)
(* (layer/src/lib.rs, fork_detour).  A process is a copy of its parent's   *)
(* memory: the child of a fork starts with the parent's global, with a     *)
(* copy of every connection object, and with the parent's fd tables.       *)
(***************************************************************************)

\* addresses an internal proxy listens on
ProxyAddrs == {"127.0.0.1:5000", "127.0.0.1:5001"}
\* the fds of the application
LayerFds == 1 .. MaxLayerFd
\* NewSessionRequest::New(process_info)
New == [kind |-> "New", parent |-> 0]
\* NewSessionRequest::Forked(parent)
Forked(parent) == [kind |-> "Forked", parent |-> parent]

\* ProxyConnection::new(proxy_addr, session, timeout) when it succeeds: a
\* connection to proxy_addr that announced session and was given layer_id,
\* over which no request was sent yet
ProxyConnection_new(proxy_addr, session, layer_id) ==
    [proxy_addr |-> proxy_addr, session |-> session, layer_id |-> layer_id,
     used |-> FALSE, destroyed |-> FALSE]

\* the ids of the connection objects that were made, in any process
AllObjects == UNION {DOMAIN processes[p].objects : p \in ProcessIds}
\* the id of the next connection object; the internal proxy numbers the
\* layers that connect to it, so this is the layer id of the connection too
NextObject == Cardinality(AllObjects) + 1
\* the pids that are not in use
FreePids == {p \in ProcessIds : processes[p].state = "none"}
\* the pid the next child gets
NextPid == CHOOSE c \in FreePids : \A d \in FreePids : c <= d

\* load_only_layer_start: in trace only mode the layer makes no connection,
\* and otherwise it connects to the proxy and sets the global
load_only_layer_start(trace_only, address) ==
    [NoProcess EXCEPT
        !.state = "app",
        !.PROXY_CONNECTION = IF trace_only THEN 0 ELSE 1,
        !.objects = IF trace_only THEN <<>>
                    ELSE <<ProxyConnection_new(address, New, 1)>>]

\* what fork leaves alone
beside_layer ==
    <<sniffer_side, file_vars, resolved, chain_vars, mirrord_rules, redirector>>

\* the application sends a request to the proxy: it goes over the global
\* connection of the process
make_proxy_request(p) ==
    LET conn == processes[p].PROXY_CONNECTION
    IN  /\ processes[p].state = "app"
        /\ conn # 0
        /\ processes' = [processes EXCEPT ![p].objects[conn].used = TRUE]
        /\ UNCHANGED <<detours, hooks>>
        /\ UNCHANGED beside_layer

\* a variant of the caller's side that takes the global before it calls
\* FN_FORK() and puts it back only when the fork has made a child
fork_detour_TakesFirst(p, forked) ==
    /\ processes[p].state = "app"
    /\ processes[p].forks < MaxForks
    /\ IF forked /\ FreePids # {}
       THEN processes' =
              [processes EXCEPT
                  ![p].res = NextPid,
                  ![p].forks = @ + 1,
                  ![NextPid] = [processes[p] EXCEPT
                                   !.state = "forked",
                                   !.parent = p,
                                   !.forks = 0,
                                   !.res = 0,
                                   !.fetches = 0]]
       ELSE processes' =
              [processes EXCEPT
                  ![p].res = -1,
                  ![p].forks = @ + 1,
                  ![p].PROXY_CONNECTION = 0]
    /\ UNCHANGED <<detours, hooks>>
    /\ UNCHANGED beside_layer

\* fork_detour in the process that calls fork: FN_FORK() fails and gives a
\* negative result, or it makes a child that is a copy of the caller and
\* gives the child's pid; either way the result is returned as it is
fork_detour(p, forked) ==
    /\ processes[p].state = "app"
    /\ processes[p].forks < MaxForks
    /\ IF forked /\ FreePids # {}
       THEN processes' =
              [processes EXCEPT
                  ![p].res = NextPid,
                  ![p].forks = @ + 1,
                  ![NextPid] = [processes[p] EXCEPT
                                   !.state = "forked",
                                   !.parent = p,
                                   !.forks = 0,
                                   !.res = 0,
                                   !.fetches = 0]]
       ELSE processes' =
              [processes EXCEPT ![p].res = -1, ![p].forks = @ + 1]
    /\ UNCHANGED <<detours, hooks>>
    /\ UNCHANGED beside_layer

\* a variant of the child's side that drops the parent's connection at the
\* end of the detour where the code forgets it
fork_detour_child_Drops(c, connected, unwound) ==
    LET parent_connection == processes[c].PROXY_CONNECTION
        object == processes[c].objects[parent_connection]
    IN  /\ processes[c].state = "forked"
        /\ IF parent_connection = 0
           THEN processes' = [processes EXCEPT ![c].state = "app"]
           ELSE IF connected
           THEN processes' =
                  [processes EXCEPT
                      ![c].state = "app",
                      ![c].PROXY_CONNECTION = NextObject,
                      ![c].objects =
                          [@ EXCEPT ![parent_connection].destroyed = TRUE]
                          @@ (NextObject :> ProxyConnection_new(
                                 object.proxy_addr, Forked(object.layer_id),
                                 NextObject))]
           ELSE processes' =
                  [processes EXCEPT
                      ![c].state = "terminated",
                      ![c].PROXY_CONNECTION = 0,
                      ![c].objects[parent_connection].destroyed = unwound]
        /\ UNCHANGED <<detours, hooks>>
        /\ UNCHANGED beside_layer

\* fork_detour in the child, where FN_FORK() gave 0: without a connection
\* (trace only) it returns at once; otherwise it takes the global, connects
\* to the same proxy with Forked(the parent's layer id), sets the global to
\* the new connection and forgets the parent's one.  When the connection
\* cannot be made, expect panics and the child ends; whether the panic runs
\* the destructor of the parent's connection depends on the build (unwound).
fork_detour_child(c, connected, unwound) ==
    LET parent_connection == processes[c].PROXY_CONNECTION
        object == processes[c].objects[parent_connection]
    IN  /\ processes[c].state = "forked"
        /\ IF parent_connection = 0
           THEN processes' = [processes EXCEPT ![c].state = "app"]
           ELSE IF connected
           THEN processes' =
                  [processes EXCEPT
                      ![c].state = "app",
                      ![c].PROXY_CONNECTION = NextObject,
                      ![c].objects =
                          @ @@ (NextObject :> ProxyConnection_new(
                                   object.proxy_addr, Forked(object.layer_id),
                                   NextObject))]
           ELSE processes' =
                  [processes EXCEPT
                      ![c].state = "terminated",
                      ![c].PROXY_CONNECTION = 0,
                      ![c].objects[parent_connection].destroyed = unwound]
        /\ UNCHANGED <<detours, hooks>>
        /\ UNCHANGED beside_layer

\* nothing but the layer
InitBesideLayer ==
    /\ SnifferIdle
    /\ FilesIdle
    /\ ChainIdle
    /\ resolved = NotResolved
    /\ mirrord_rules = NotListed

\* the application starts as one process, with the layer loaded; its first
\* fd is a file of the layer and the other ones are sockets of the layer
InitFork ==
    /\ \E trace_only \in BOOLEAN, address \in ProxyAddrs :
          processes =
              [p \in ProcessIds |->
                  IF p = 1
                  THEN [load_only_layer_start(trace_only, address)
                           EXCEPT !.OPEN_FILES = {1},
                                  !.SOCKETS = LayerFds \ {1},
                                  !.fs_active = TRUE]
                  ELSE NoProcess]
    /\ detours = [t \in ThreadIds |-> NoDetour]
    /\ hooks = NoHooks
    /\ InitBesideLayer

NextFork ==
    \/ \E p \in ProcessIds : make_proxy_request(p)
    \/ \E p \in ProcessIds, forked \in BOOLEAN : fork_detour(p, forked)
    \/ \E c \in ProcessIds, connected \in BOOLEAN, unwound \in BOOLEAN :
          fork_detour_child(c, connected, unwound)

SpecFork == InitFork /\ [][NextFork]_vars

\* the child c of a fork returns from the detour with a new connection: a new
\* object, to the address of the parent's connection, that announced
\* Forked(the parent's layer id)
ChildReconnects(c) ==
    LET parent_connection == processes[c].PROXY_CONNECTION
        new_connection == processes'[c].PROXY_CONNECTION
    IN  (/\ processes[c].state = "forked"
         /\ parent_connection # 0
         /\ processes'[c].state = "app")
        => /\ new_connection \notin AllObjects
           /\ new_connection \in DOMAIN processes'[c].objects
           /\ processes'[c].objects[new_connection].proxy_addr =
                 processes[c].objects[parent_connection].proxy_addr
           /\ processes'[c].objects[new_connection].session =
                 Forked(processes[c].objects[parent_connection].layer_id)
           /\ ~processes'[c].objects[new_connection].destroyed

\* in a process that goes on, a connection object that is not the global one
\* stays as it is: no request goes over it and it is not destroyed
OtherObjectsLeft(p) ==
    processes'[p].state \in {"app", "forked"}
    => \A o \in DOMAIN processes[p].objects \ {processes'[p].PROXY_CONNECTION} :
          processes'[p].objects[o] = processes[p].objects[o]

\* process p has just got the child c
Begot(p, c) ==
    /\ processes[c].state = "none"
    /\ processes'[c].state = "forked"
    /\ processes'[c].parent = p

\* the fork that made a child left the global of the parent and its objects
ParentKeepsConnection(p) ==
    (\E c \in ProcessIds : Begot(p, c))
    => /\ processes'[p].PROXY_CONNECTION = processes[p].PROXY_CONNECTION
       /\ processes'[p].objects = processes[p].objects

\* C26: the child of a fork made with a proxy connection leaves the fork
\* detour with a new connection to the same proxy address that announced
\* Forked(the parent's layer id); the parent's connection object is neither
\* used for a request nor destroyed in the child; and in the parent the
\* global is the same object, unchanged, after the fork.
C26_ChildGetsForkedConnection ==
    [][\A p \in ProcessIds :
          /\ ChildReconnects(p)
          /\ OtherObjectsLeft(p)
          /\ ParentKeepsConnection(p)]_vars

\* a child that reconnected has sent a request over its new connection, has
\* the parent's object untouched, and the parent still has that object as its
\* global
C26_Witness ==
    \E c \in ProcessIds :
       LET conn == processes[c].PROXY_CONNECTION
           parent == processes[c].parent
       IN  /\ processes[c].state = "app"
           /\ parent # 0
           /\ conn # 0
           /\ processes[c].objects[conn].session.kind = "Forked"
           /\ processes[c].objects[conn].used
           /\ processes[parent].PROXY_CONNECTION # 0
           /\ processes[parent].PROXY_CONNECTION \in DOMAIN processes[c].objects
           /\ processes[parent].objects[processes[parent].PROXY_CONNECTION].used
           /\ ~processes[c].objects[processes[parent].PROXY_CONNECTION].used

\* what a process shares with nobody: its global connection, its connection
\* objects and its fd tables
LayerState(p) ==
    <<processes[p].PROXY_CONNECTION, processes[p].objects,
      processes[p].OPEN_FILES, processes[p].SOCKETS>>

\* the child c ends inside the fork detour, and no other process changes
ChildOnlyTerminates(c) ==
    (processes[c].state = "forked" /\ processes'[c].state = "terminated")
    => \A p \in ProcessIds \ {c} : processes'[p] = processes[p]

\* the fork of p that made the child c returned c to p and left p's
\* connection and tables
ParentGetsPid(p) ==
    \A c \in ProcessIds :
       Begot(p, c) => /\ processes'[p].res = c
                      /\ processes'[p].state = "app"
                      /\ LayerState(p)' = LayerState(p)

\* a call of fork by p that made no child returned a negative result and left
\* p's connection and tables, and every other process
ForkFailureReturned(p) ==
    (/\ processes'[p].forks = processes[p].forks + 1
     /\ ~\E c \in ProcessIds : Begot(p, c))
    => /\ processes'[p].res < 0
       /\ processes'[p].state = "app"
       /\ LayerState(p)' = LayerState(p)
       /\ \A q \in ProcessIds \ {p} : processes'[q] = processes[q]

\* C27: when the child cannot connect to the proxy only the child ends: its
\* parent got the child's pid from fork and keeps its connection and its fd
\* tables; when fork itself fails the caller gets the negative result and its
\* connection and tables are unchanged.
C27_ForkFailuresAreContained ==
    /\ [](\A c \in ProcessIds :
             (/\ processes[c].state = "terminated"
              /\ processes[processes[c].parent].forks = 1)
             => /\ processes[processes[c].parent].res = c
                /\ processes[processes[c].parent].state = "app")
    /\ [][\A p \in ProcessIds :
             /\ ChildOnlyTerminates(p)
             /\ ParentGetsPid(p)
             /\ ForkFailureReturned(p)]_vars

\* a child ended in the fork detour while its parent, which holds a
\* connection, has the child's pid as the result of fork; and a fork of a
\* process that holds a connection has failed
C27_Witness ==
    /\ \E c \in ProcessIds :
          /\ processes[c].state = "terminated"
          /\ processes[processes[c].parent].res = c
          /\ processes[processes[c].parent].PROXY_CONNECTION # 0
          /\ processes[processes[c].parent].OPEN_FILES # {}
    /\ \E p \in ProcessIds :
          /\ processes[p].state = "app"
          /\ processes[p].res < 0
          /\ processes[p].PROXY_CONNECTION # 0

(***************************************************************************)
(* The file and close detours of the layer in one process with several     *)
(* threads (mirrord-layer/src/file/hooks.rs, layer/src/lib.rs).  A detour  *)
(* is followed statement by statement where it takes a table lock, calls   *)
(* the original libc function, or does the operation on the remote file.   *)
(***************************************************************************)

\* the detours that look the fd up in OPEN_FILES in one statement:
\* `OPEN_FILES.lock().unwrap().get(&fd).cloned()`
LookupDetours == {"read", "lseek", "write", "openat"}
\* the detours that decide by the path alone and take no lock themselves
PathDetours == {"open", "fopen"}
\* close_detour, which close_nocancel_detour, __close_nocancel_detour and
\* __close_detour call, and uv_fs_close_detour
CloseDetours == {"close", "uv_fs_close"}
Detours ==
    LookupDetours \cup PathDetours \cup CloseDetours
        \cup {"fread", "fileno", "fdopen"}

\* some thread holds the lock of the table
locked(table) == \E t \in ThreadIds : table \in detours[t].holds

\* thread t is inside the original libc function
InOriginal(t) == detours[t].pc \in {"original", "FN_FILENO"}

\* a step of thread t in the first process
detour_step(t, step, open_files_after, sockets_after) ==
    /\ detours' = [detours EXCEPT ![t] = step]
    /\ processes' = [processes EXCEPT ![1].OPEN_FILES = open_files_after,
                                      ![1].SOCKETS = sockets_after]
    /\ UNCHANGED hooks
    /\ UNCHANGED beside_layer

\* a step of thread t that leaves the tables
detour_moves(t, pc, holds) ==
    detour_step(t, [detours[t] EXCEPT !.pc = pc, !.holds = holds],
                processes[1].OPEN_FILES, processes[1].SOCKETS)

\* the application calls a hooked function from thread t.  open and fopen go
\* to the original for a path that is relative or ignored (bypassed) and to
\* the remote file otherwise; close_detour starts with FN_CLOSE(fd);
\* uv_fs_close_detour starts with close_layer_fd(fd); fread_detour starts
\* with fileno_detour(file_stream).
detour_called(t, detour, fd, bypassed) ==
    /\ detours[t].pc = "idle"
    /\ detour_step(t,
          [pc |-> CASE detour \in PathDetours ->
                          IF bypassed THEN "original" ELSE "remote"
                    [] detour = "close" -> "original"
                    [] detour = "uv_fs_close" -> "close_layer_fd"
                    [] detour \in {"fread", "fileno"} -> "fileno"
                    [] detour = "fdopen" -> "lock"
                    [] OTHER -> "lookup",
           detour |-> detour, fd |-> fd, holds |-> {}],
          processes[1].OPEN_FILES, processes[1].SOCKETS)

\* fileno_detour: `if OPEN_FILES.lock().unwrap().contains_key(&local_fd)`;
\* the guard is a temporary of the condition and is dropped before either
\* branch runs; a managed fd is returned, for another one FN_FILENO is called
fileno_detour(t) ==
    /\ detours[t].pc = "fileno"
    /\ ~locked("OPEN_FILES")
    /\ detour_moves(t,
          IF detours[t].fd \notin processes[1].OPEN_FILES THEN "FN_FILENO"
          ELSE IF detours[t].detour = "fread" THEN "lookup" ELSE "idle",
          {})

\* FN_FILENO returns, to fread_detour or to the application
FN_FILENO_returns(t) ==
    /\ detours[t].pc = "FN_FILENO"
    /\ detour_moves(t,
          IF detours[t].detour = "fread" THEN "lookup" ELSE "idle", {})

\* read_detour and the detours like it:
\* `let remote_fd = OPEN_FILES.lock().unwrap().get(&fd).cloned();`
\* the guard is a temporary of the statement and is dropped at its end; then
\* a managed fd goes to the remote file and another one to the original
read_detour(t) ==
    /\ detours[t].pc = "lookup"
    /\ ~locked("OPEN_FILES")
    /\ detour_moves(t,
          IF detours[t].fd \in processes[1].OPEN_FILES
          THEN "remote" ELSE "original",
          {})

\* fdopen_detour: `let open_files = OPEN_FILES.lock().unwrap();` binds the
\* guard to a local that lives to the end of the function, so the lock is
\* held while the detour calls fdopen on the remote file or FN_FDOPEN
fdopen_detour(t) ==
    /\ detours[t].pc = "lock"
    /\ ~locked("OPEN_FILES")
    /\ detour_moves(t,
          IF detours[t].fd \in processes[1].OPEN_FILES
          THEN "remote" ELSE "original",
          {"OPEN_FILES"})

\* close_layer_fd, its first half: `SOCKETS.lock().expect(..).remove(&fd)`;
\* the guard is a temporary of the scrutinee of the `if let` and lives to the
\* end of the whole `if ... else if ...`
close_layer_fd(t) ==
    /\ detours[t].pc = "close_layer_fd"
    /\ ~locked("SOCKETS")
    /\ detour_step(t,
          [detours[t] EXCEPT
              !.pc = IF detours[t].fd \in processes[1].SOCKETS
                     THEN "socket_close"
                     ELSE IF processes[1].fs_active THEN "remove_file"
                     ELSE "closed",
              !.holds = {"SOCKETS"}],
          processes[1].OPEN_FILES,
          processes[1].SOCKETS \ {detours[t].fd})

\* close_layer_fd, its second half: socket.close() for a socket, or
\* `OPEN_FILES.lock().expect(..).remove(&fd)` when the fs feature is active;
\* then the guards are dropped and close_layer_fd returns: close_detour
\* returns the result of FN_CLOSE, uv_fs_close_detour calls FN_UV_FS_CLOSE
close_layer_fd_returns(t) ==
    /\ detours[t].pc \in {"socket_close", "remove_file", "closed"}
    /\ detours[t].pc = "remove_file" => ~locked("OPEN_FILES")
    /\ detour_step(t,
          [detours[t] EXCEPT
              !.pc = IF detours[t].detour = "uv_fs_close"
                     THEN "original" ELSE "idle",
              !.holds = {}],
          IF detours[t].pc = "remove_file"
          THEN processes[1].OPEN_FILES \ {detours[t].fd}
          ELSE processes[1].OPEN_FILES,
          processes[1].SOCKETS)

\* the original libc function, or the operation on the remote file, returns:
\* close_detour goes on with close_layer_fd(fd), every other detour returns
\* and drops the guards it still holds
detour_returns(t) ==
    /\ detours[t].pc \in {"original", "remote"}
    /\ detour_moves(t,
          IF detours[t].detour = "close" THEN "close_layer_fd" ELSE "idle",
          {})

\* one process with the layer loaded, some of its fds files of the layer,
\* some sockets of the layer, some neither; every thread outside the layer
InitDetours ==
    /\ \E files \in SUBSET LayerFds, fs_active \in BOOLEAN :
       \E sockets \in SUBSET (LayerFds \ files) :
          processes =
              [p \in ProcessIds |->
                  IF p = 1
                  THEN [load_only_layer_start(FALSE, "127.0.0.1:5000")
                           EXCEPT !.OPEN_FILES = files,
                                  !.SOCKETS = sockets,
                                  !.fs_active = fs_active]
                  ELSE NoProcess]
    /\ detours = [t \in ThreadIds |-> NoDetour]
    /\ hooks = NoHooks
    /\ InitBesideLayer

NextDetours ==
    \/ \E t \in ThreadIds, detour \in Detours, fd \in LayerFds,
          bypassed \in BOOLEAN : detour_called(t, detour, fd, bypassed)
    \/ \E t \in ThreadIds : fileno_detour(t)
    \/ \E t \in ThreadIds : FN_FILENO_returns(t)
    \/ \E t \in ThreadIds : read_detour(t)
    \/ \E t \in ThreadIds : fdopen_detour(t)
    \/ \E t \in ThreadIds : close_layer_fd(t)
    \/ \E t \in ThreadIds : close_layer_fd_returns(t)
    \/ \E t \in ThreadIds : detour_returns(t)

SpecDetours == InitDetours /\ [][NextDetours]_vars

\* C28: no thread is inside the original libc function while it holds the
\* lock of OPEN_FILES or of SOCKETS: every detour has released the table
\* lock it took before it calls the original.
C28_NoLockAcrossOriginal ==
    \A t \in ThreadIds : InOriginal(t) => detours[t].holds = {}

(***************************************************************************)
(* Packets of flows that are not in the session map (sniffer.rs,           *)
(* handle_packet, Entry::Vacant): every packet the capture yields is       *)
(* noted in observed, the ignored ones too.                                *)
(***************************************************************************)

\* the flag bytes of the observed packets: SYN also together with RST or FIN
ObservedFlagChoices == FlagChoices \cup {SYN + RST, SYN + FIN}

\* start(): result = self.tcp_capture.next() => self.handle_packet(..)?
\* as capture, with the packet noted
capture_observed(identifier, flags, kind) ==
    LET tcp_packet == [flags |-> flags, bytes |-> payload(identifier, kind)]
    IN  /\ status = "running"
        /\ packet_ignored(identifier, tcp_packet) \/ packets_left > 0
        /\ handle_packet(identifier, tcp_packet)
        /\ IF packet_ignored(identifier, tcp_packet)
              THEN UNCHANGED packets_left
              ELSE packets_left' = packets_left - 1
        /\ observed' = [NoEvent EXCEPT
                           !.kind = "Packet",
                           !.port = identifier.dest_port,
                           !.flags = flags,
                           !.http = HttpVersion_new(tcp_packet.bytes),
                           !.known = entry(sessions, identifier) # {}]
        /\ UNCHANGED <<status, command_rx, port_subscriptions, client_txs,
                       clients_closed, filter, times_filter_changed,
                       commands_left, api, connections, next_connection_id>>
        /\ UNCHANGED beside_sniffer

InitObserved ==
    \E of \in [ClientIds -> SUBSET Ports] : Subscribed(of, MaxObservedPackets)

NextObserved ==
    \/ \E c \in ClientIds : api_drop(c)
    \/ \E identifier \in PacketIds, flags \in ObservedFlagChoices,
          kind \in ByteKinds : capture_observed(identifier, flags, kind)

SpecObserved == InitObserved /\ [][NextObserved]_vars

\* the step handles a packet of a flow that is not in the session map
UnknownPacketStep ==
    /\ observed' # observed \/ PacketStep
    /\ observed'.kind = "Packet"
    /\ ~observed'.known

\* the packet has SYN set and none of ACK, RST and FIN, or its payload starts
\* like an HTTP/1 or an HTTP/2 request
MayStartSession(flags, http) ==
    \/ /\ (flags \div SYN) % 2 = 1
       /\ (flags \div ACK) % 2 = 0
       /\ (flags \div RST) % 2 = 0
       /\ (flags \div FIN) % 2 = 0
    \/ http \in {"V1", "V2"}

\* C29: a packet whose flow is not in the session map starts a session only
\* if it has SYN without ACK, RST and FIN or its payload looks like the start
\* of an HTTP/1 or HTTP/2 request; every other packet of an unknown flow
\* leaves the session map, the subscription table and the queues of all
\* clients unchanged.
C29_UnknownFlowsStartOnSynOrHttp ==
    [][/\ DOMAIN sessions' \ DOMAIN sessions # {} \/ NewSessionStep
          => /\ observed'.kind = "Packet"
             /\ ~observed'.known
             /\ MayStartSession(observed'.flags, observed'.http)
       /\ (UnknownPacketStep
           /\ ~MayStartSession(observed'.flags, observed'.http))
          => /\ sessions' = sessions
             /\ channels' = channels
             /\ port_subscriptions' = port_subscriptions
             /\ queue' = queue
             /\ client_txs' = client_txs]_vars

\* while a session is in the map, a packet of another flow to a subscribed
\* port came with ACK alone and a payload that is not HTTP, and was ignored
C29_Witness ==
    /\ observed.kind = "Packet"
    /\ ~observed.known
    /\ ~MayStartSession(observed.flags, observed.http)
    /\ observed.flags = ACK
    /\ SubscribersOf(observed.port) # {}
    /\ DOMAIN sessions # {}
    /\ \E c \in ClientIds : queue[c] # <<>>

(***************************************************************************)
(* Stopping the sniffer (sniffer.rs, start; entrypoint/setup.rs,           *)
(* start_sniffer).  The owner of the task cancels the token or drops the   *)
(* last sender of the command channel at any time; the loop goes on        *)
(* handling events until select! takes the branch that observes it.        *)
(***************************************************************************)

\* everything but the signals
beside_signals ==
    <<status, command_rx, port_subscriptions, sessions, client_txs,
      clients_closed, filter, times_filter_changed, channels,
      commands_left, packets_left, api, queue, connections, next_connection_id,
      last_packet, observed, file_vars, resolved, chain_vars, mirrord_rules,
      redirector, layer_vars>>

\* the owner of the token cancels it
cancel_token_cancel ==
    /\ ~signals.cancelled
    /\ signals' = [signals EXCEPT !.cancelled = TRUE]
    /\ UNCHANGED beside_signals

\* the last sender of the command channel is dropped: the one start_sniffer
\* put into BackgroundTask::Running, when no TcpSnifferApi holds a clone
command_tx_dropped ==
    /\ ~signals.closed
    /\ \A c \in ClientIds : api[c] # "alive"
    /\ signals' = [signals EXCEPT !.closed = TRUE]
    /\ UNCHANGED beside_signals

\* start(): _ = cancel_token.cancelled() => break, once the token is
\* cancelled
cancelled_observed ==
    /\ signals.cancelled
    /\ start_cancelled

\* a variant in which recv stays pending on a channel without senders
command_channel_closed_Pending ==
    /\ FALSE
    /\ UNCHANGED vars

\* start(): command = self.command_rx.recv() gives None, which it does when
\* every sender is dropped and the queue is empty: break
command_channel_closed ==
    /\ status = "running"
    /\ signals.closed
    /\ command_rx = <<>>
    /\ sniffer_exit("stopped")
    /\ UNCHANGED last_packet
    /\ UNCHANGED <<commands_left, packets_left, api, queue, connections, next_connection_id>>
    /\ UNCHANGED observed
    /\ UNCHANGED beside_sniffer

\* the packets that arrive while the sniffer is being stopped
capture_while_stopping ==
    \E identifier \in PacketIds, flags \in {SYN, ACK}, kind \in {"raw"} :
        capture_observed(identifier, flags, kind)

InitShutdown ==
    /\ Constructed
    /\ commands_left = MaxShutdownCommands
    /\ packets_left = MaxShutdownPackets

NextShutdown ==
    \/ \E c \in ClientIds : ~signals.closed /\ api_new(c)
    \/ \E c \in ClientIds, port \in Ports : api_port_subscribe(c, port)
    \/ \E c \in ClientIds : api_drop(c)
    \/ handle_command
    \/ \E c \in ClientIds : handle_client_closed(c)
    \/ capture_while_stopping
    \/ capture_failed
    \/ cancel_token_cancel
    \/ command_tx_dropped
    \/ cancelled_observed
    \/ command_channel_closed

SpecShutdown == InitShutdown /\ [][NextShutdown]_vars

\* select! polls its branches in a random order in every iteration of the
\* loop, so a branch that stays ready is taken: the cancelled token, the
\* command at the head of the queue, the closed and empty command channel.
\* Nothing makes the owner stop the task, a client act or a packet arrive.
FairShutdown ==
    /\ SpecShutdown
    /\ WF_vars(cancelled_observed)
    /\ WF_vars(handle_command)
    /\ WF_vars(command_channel_closed)

\* the loop has observed a signal in this step: the cancelled token, or the
\* command channel closed and empty
SignalObserved ==
    \/ signals.cancelled
    \/ signals.closed /\ command_rx = <<>>

\* C30: once the token is cancelled or the command channel is closed the
\* loop of start() eventually exits, also while packets keep arriving; it
\* returns success when it exits on the signal, and an error when a capture
\* or a filter update fails; once it has exited it handles no further event.
C30_SignalStopsTheLoop ==
    /\ (signals.cancelled \/ signals.closed) ~> (status # "running")
    /\ [][(status = "running" /\ status' # "running")
             => /\ status' \in {"stopped", "failed"}
                /\ status' = "stopped" => SignalObserved]_vars
    /\ [][status # "running"
             => /\ UNCHANGED sniffer_vars
                /\ UNCHANGED <<channels, last_packet, observed>>
                /\ \A c \in ClientIds : Len(queue'[c]) <= Len(queue[c])]_vars

\* the loop has returned success on a signal while a client was subscribed
\* and the capture could still yield a packet
C30_Witness ==
    /\ status = "stopped"
    /\ signals.cancelled \/ signals.closed
    /\ packets_left > 0
    /\ observed.kind = "Packet"
    /\ times_filter_changed > 0

(***************************************************************************)
(* SafeIpTables::create with the flush_connections option and with a       *)
(* command of iptables that fails for a reason outside the table           *)
(***************************************************************************)
\* no command fails for an outside reason
NoFailure == [at |-> 0, command |-> None]

\* what the call does to the table when the command fails
exec_failing(table, call, failing) ==
    CASE call.op = "create_chain" -> create_chain(table, call.chain, failing)
      [] call.op = "remove_chain" -> remove_chain(table, call.chain, failing)
      [] call.op = "add_rule" ->
             IPTables_add_rule(table, call.chain, call.rule, failing)
      [] call.op = "insert_rule" ->
             insert_rule(table, call.chain, call.rule, call.index, failing)
      [] call.op = "remove_rule" ->
             IPTables_remove_rule(table, call.chain, call.rule, failing)

RECURSIVE run_failing(_, _, _, _, _)
\* the calls in their order, of which the call number failing.at of the
\* log has the command that fails; with `stops` up to the first call that
\* fails (the ? operator), without it each call whatever the one before it
\* returned (the drops of the handles)
run_failing(table, log, todo, stops, failing) ==
    IF todo = <<>>
        THEN [ok |-> TRUE, table |-> table, log |-> log]
        ELSE LET command == IF Len(log) + 1 = failing.at
                                THEN failing.command ELSE None
                 done == exec_failing(table, Head(todo), command)
                 logged == Append(log, [Head(todo) EXCEPT !.ok = done.ok])
             IN  IF done.ok \/ ~stops
                     THEN run_failing(done.table, logged, Tail(todo), stops, failing)
                     ELSE [ok |-> FALSE, table |-> done.table, log |-> logged]

\* what SafeIpTables::create tried: the create of a strategy and its result
Tried(strategy, ok) == [strategy |-> strategy, ok |-> ok]

\* create returns the error: the redirect, if there is one, is dropped and
\* with it the handles of its chains
create_failed(strategy, built, tried, flush_connections) ==
    LET dropped == IF strategy = None THEN built
                   ELSE run_failing(built.table, built.log, drop_calls(strategy),
                                    FALSE, built.failing)
    IN  /\ nat' = dropped.table
        /\ redirector' = [redirector EXCEPT
                             !.log = dropped.log, !.tried = tried,
                             !.flush_connections = flush_connections]

\* the rest of create with the redirect of the strategy: the wrapper
\* FlushConnections when flush_connections is set (FlushConnections::create
\* makes no call of IPTables), then mount_entrypoint on the redirect
create_wrapped(strategy, built, tried, flush_connections) ==
    LET mount == run_failing(built.table, built.log, mount_calls(strategy),
                             TRUE, built.failing)
    IN  IF mount.ok
            THEN /\ nat' = mount.table
                 /\ redirector' = [is |-> "alive", strategy |-> strategy,
                                   preroute |-> size_after(mount.log, IPTABLE_PREROUTING),
                                   output |-> size_after(mount.log, output_chain(strategy)),
                                   mounted |-> TRUE, redirects |-> {},
                                   log |-> mount.log,
                                   wrapped |-> flush_connections, tried |-> tried,
                                   flush_connections |-> flush_connections]
            ELSE create_failed(strategy, mount @@ [failing |-> built.failing],
                               tried, flush_connections)

\* the create of a strategy: its calls, and when one fails the drop of the
\* handles it had made
strategy_create(table, log, strategy, failing) ==
    LET first == run_failing(table, log, create_calls(strategy), TRUE, failing)
        undone == run_failing(first.table, first.log,
                              unwind(first.log, Len(first.log)), FALSE, failing)
    IN  IF first.ok THEN first @@ [failing |-> failing]
        ELSE [undone EXCEPT !.ok = FALSE] @@ [failing |-> failing]

\* SafeIpTables::create(ipt, flush_connections, None, false) in which the
\* call number failing.at of IPTables has a command that fails
SafeIpTables_create_failing(flush_connections, failing) ==
    /\ redirector.is = "none"
    /\ redirector.log = <<>>
    /\ redirector_step
    /\ nat_before' = nat
    /\ LET strategy == IF detect(nat) THEN "Mesh" ELSE "Standard"
           first == strategy_create(nat, redirector.log, strategy, failing)
           fallback == strategy_create(first.table, first.log, "PrerouteFallback",
                                       failing)
       IN  IF first.ok
               THEN create_wrapped(strategy, first, <<Tried(strategy, TRUE)>>,
                                   flush_connections)
               ELSE IF strategy = "Mesh"
                        THEN create_failed(None, first, <<Tried(strategy, FALSE)>>,
                                           flush_connections)
                        ELSE IF fallback.ok
                                 THEN create_wrapped("PrerouteFallback", fallback,
                                          <<Tried(strategy, FALSE),
                                            Tried("PrerouteFallback", TRUE)>>,
                                          flush_connections)
                                 ELSE create_failed(None, fallback,
                                          <<Tried(strategy, FALSE),
                                            Tried("PrerouteFallback", FALSE)>>,
                                          flush_connections)

\* the commands that can fail in create
CreateCommands == {"new_chain", "append", "insert", "flush_chain", "delete_chain"}

InitCreate == InitRedirector

NextCreate ==
    \/ \E flush_connections \in BOOLEAN :
           \/ SafeIpTables_create_failing(flush_connections, NoFailure)
           \/ \E at \in 1 .. MaxFailingCall, command \in CreateCommands :
                  SafeIpTables_create_failing(flush_connections,
                                              [at |-> at, command |-> command])
    \/ \E redirect \in Redirects : SafeIpTables_add_redirect(redirect)
    \/ \E redirect \in Redirects : SafeIpTables_remove_redirect(redirect)
    \/ SafeIpTables_cleanup
    \/ SafeIpTables_drop

SpecCreate == InitCreate /\ [][NextCreate]_vars

\* SafeIpTables::create was called
CreateCalled == redirector.log = <<>> /\ redirector'.log # <<>>
\* create returned the error
CreateFailed == CreateCalled /\ redirector'.is = "none"

\* the places of the log of the calls that put the jumps in the built-in chains
MountsIn(log) ==
    {i \in 1 .. Len(log) : log[i].op = "add_rule" /\ log[i].chain \in {PREROUTING, OUTPUT}}
\* the places of the log of the calls with which a strategy makes its chains
CreatesIn(log) ==
    {i \in 1 .. Len(log) : log[i].op \in {"create_chain", "insert_rule"}}

\* without a mesh, when the create of the standard redirect fails, create
\* goes on with the PREROUTING-only redirect, and it returns an error only
\* when the create of that redirect or its mount fails
FallsBack ==
    LET tried == redirector'.tried
    IN  ~detect(nat) /\ ~tried[1].ok =>
            /\ Len(tried) = 2
            /\ tried[2].strategy = "PrerouteFallback"
            /\ CreateFailed =>
                   \/ ~tried[2].ok
                   \/ \E i \in MountsIn(redirector'.log) : ~redirector'.log[i].ok
\* the redirect of the strategy that was chosen is wrapped when and only
\* when flush_connections is set
WrappedWhenSet ==
    ~CreateFailed =>
        /\ redirector'.wrapped = redirector'.flush_connections
        /\ redirector'.strategy =
               redirector'.tried[Len(redirector'.tried)].strategy
\* the jumps are mounted after the calls that make the chains of the strategy
MountedAfterChosen ==
    \A i \in MountsIn(redirector'.log) :
        \A j \in CreatesIn(redirector'.log) : j < i
\* a create that returns an error leaves no chain that was not in the table
LeavesNoChain == CreateFailed => DOMAIN nat' \subseteq DOMAIN nat

\* the parts of C31 that are about the order of the steps of create
C31_Steps ==
    [][CreateCalled => FallsBack /\ WrappedWhenSet /\ MountedAfterChosen]_vars

\* C31: without a mesh, when the create of the standard redirect fails,
\* create falls back to the PREROUTING-only redirect and returns an error
\* only when that fallback fails too; the redirect is wrapped when
\* flush_connections is set; the jumps are mounted after the strategy was
\* chosen; and a failure of any of these steps leaves no chain behind that
\* create had made
C31_CreateFallsBackAndLeavesNoChain ==
    [][CreateCalled =>
          FallsBack /\ WrappedWhenSet /\ MountedAfterChosen /\ LeavesNoChain]_vars

\* create has returned the PREROUTING-only redirect, wrapped, after the
\* create of the standard redirect had failed
C31_FellBack ==
    /\ redirector.is = "alive"
    /\ redirector.strategy = "PrerouteFallback"
    /\ redirector.wrapped
    /\ Len(redirector.tried) = 2

(***************************************************************************)
(* The file detours, call by call (mirrord-layer/src/file/hooks.rs): what  *)
(* a call of open, openat, read, fread, lseek and write does with its      *)
(* arguments: which original function it calls, which requests it sends    *)
(* to the agent, and what it returns.  The operations of file/ops.rs each  *)
(* send one request and wait for its response.                             *)
(***************************************************************************)

\* the local fds of the process
HookFds == 1 .. MaxHookFd
\* libc: the directory fd that stands for the working directory
AT_FDCWD == -100
\* libc: the values of whence
SEEK_SET == 0
SEEK_CUR == 1
SEEK_END == 2
\* the values of whence that a caller passes: the three of libc and another
Whences == {SEEK_SET, SEEK_CUR, SEEK_END, 3}

\* the paths that a caller passes: absolute or relative, matched by the
\* IGNORE_FILES pattern or not, valid UTF-8 or not
HookPaths ==
    [absolute : BOOLEAN, ignored : BOOLEAN, utf8 : BOOLEAN]

\* a call of an original libc function with its arguments
Original(fn, args) == [fn |-> fn, args |-> args]
\* a request to the agent
Request(kind, remote_fd, arg) == [kind |-> kind, remote_fd |-> remote_fd, arg |-> arg]

\* a file of the agent: its length and the position of its cursor
RemoteFile(size) == [offset |-> 0, size |-> size]
\* the remote ids the agent has given
RemoteFds == DOMAIN hooks.remote_files
\* the id the agent gives next
NextRemoteFd == Cardinality(RemoteFds) + 1
\* the lowest fd that the kernel has not allocated
FreeFds == HookFds \ hooks.kernel
LowestFree == CHOOSE fd \in FreeFds : \A other \in FreeFds : fd <= other

\* what the agent answers to Read, Seek and Write, and the file after it
agent_read(file, count) ==
    LET rest == file.size - file.offset
        read_amount == IF rest <= 0 THEN 0 ELSE IF count < rest THEN count ELSE rest
    IN  [ret |-> read_amount, file |-> [file EXCEPT !.offset = @ + read_amount]]
agent_seek(file, seek_from) ==
    LET to == CASE seek_from.from = "Start" -> seek_from.offset
                [] seek_from.from = "Current" -> file.offset + seek_from.offset
                [] seek_from.from = "End" -> file.size + seek_from.offset
    IN  IF to < 0 THEN [ret |-> -1, file |-> file]
        ELSE [ret |-> to, file |-> [file EXCEPT !.offset = to]]
agent_write(file, count) ==
    LET end == file.offset + count
    IN  [ret |-> count,
         file |-> [offset |-> end,
                   size |-> IF end > file.size THEN end ELSE file.size]]

\* the call of a detour is over: what it did, and the tables after it
hook_returns(last, open_files_after, kernel_after, remote_files_after) ==
    /\ hooks.calls < MaxHookCalls
    /\ hooks' = [hooks EXCEPT !.calls = @ + 1,
                              !.last = last,
                              !.OPEN_FILES = open_files_after,
                              !.kernel = kernel_after,
                              !.remote_files = remote_files_after]
    /\ UNCHANGED <<processes, detours>>
    /\ UNCHANGED beside_layer

\* a call that leaves the tables and the files of the agent
hook_bypasses(detour, args, original, ret) ==
    hook_returns([detour |-> detour, args |-> args, original |-> original,
                  sent |-> <<>>, ret |-> ret],
                 hooks.OPEN_FILES, hooks.kernel, hooks.remote_files)

\* a call that sends the request for the remote file and returns the answer
hook_forwards(detour, args, request, answer) ==
    hook_returns([detour |-> detour, args |-> args, original |-> <<>>,
                  sent |-> <<request>>, ret |-> answer.ret],
                 hooks.OPEN_FILES, hooks.kernel,
                 [hooks.remote_files EXCEPT ![request.remote_fd] = answer.file])

\* the original opens a local file: the kernel gives its lowest free fd
local_open(detour, args, fn, fn_args) ==
    IF FreeFds = {}
        THEN hook_bypasses(detour, args, <<Original(fn, fn_args)>>, -1)
        ELSE hook_returns([detour |-> detour, args |-> args,
                           original |-> <<Original(fn, fn_args)>>,
                           sent |-> <<>>, ret |-> LowestFree],
                          hooks.OPEN_FILES, hooks.kernel \cup {LowestFree},
                          hooks.remote_files)

\* ops::open and ops::openat: the request, and when the agent has opened the
\* file the remote fd is put into OPEN_FILES under a fresh local fd
remote_open(detour, args, request, found, size) ==
    IF ~found \/ FreeFds = {}
        THEN hook_returns([detour |-> detour, args |-> args, original |-> <<>>,
                           sent |-> <<request>>, ret |-> -1],
                          hooks.OPEN_FILES, hooks.kernel, hooks.remote_files)
        ELSE hook_returns([detour |-> detour, args |-> args, original |-> <<>>,
                           sent |-> <<request>>, ret |-> LowestFree],
                          insert(hooks.OPEN_FILES, LowestFree, NextRemoteFd),
                          hooks.kernel \cup {LowestFree},
                          insert(hooks.remote_files, NextRemoteFd, RemoteFile(size)))

\* open_detour as the detour `by` runs it: a path that is not UTF-8 returns
\* the error; a path that is ignored or relative goes to FN_OPEN; another
\* one to the agent
open_detour_from(by, args, raw_path, open_flags, found, size) ==
    IF ~raw_path.utf8
        THEN hook_bypasses(by, args, <<>>, -1)
        ELSE IF raw_path.ignored \/ ~raw_path.absolute
                 THEN local_open(by, args, "FN_OPEN", <<raw_path, open_flags>>)
                 ELSE remote_open(by, args, Request("Open", 0, raw_path), found, size)

\* open_detour(raw_path, open_flags)
open_detour(raw_path, open_flags, found, size) ==
    open_detour_from("open", <<raw_path, open_flags>>, raw_path, open_flags,
                     found, size)

\* openat_detour(fd, raw_path, open_flags)
openat_detour(fd, raw_path, open_flags, found, size) ==
    LET args == <<fd, raw_path, open_flags>>
    IN  IF ~raw_path.utf8
            THEN hook_bypasses("openat", args, <<>>, -1)
            ELSE IF raw_path.absolute \/ fd = AT_FDCWD
                     THEN open_detour_from("openat", args,
                                           raw_path, open_flags, found, size)
                     ELSE IF fd \in DOMAIN hooks.OPEN_FILES
                              THEN remote_open("openat", args,
                                       Request("OpenRelative", hooks.OPEN_FILES[fd],
                                               raw_path),
                                       found, size)
                              ELSE local_open("openat", args, "FN_OPENAT", args)

\* read_detour(fd, out_buffer, count), the whole call
read_detour_call(fd, count) ==
    LET args == <<fd, count>>
    IN  IF fd \in DOMAIN hooks.OPEN_FILES
            THEN LET remote_fd == hooks.OPEN_FILES[fd]
                 IN  hook_forwards("read", args, Request("Read", remote_fd, count),
                                   agent_read(hooks.remote_files[remote_fd], count))
            ELSE hook_bypasses("read", args, <<Original("FN_READ", args)>>, 0)

\* the first word of a FILE of libc, which is no fd of the process
NotAnFd == -1
\* the streams a caller passes: the one that fopen or fdopen made of a remote
\* file, which points to its local fd, and the ones of libc on local files
Streams ==
    {[word |-> fd, fd |-> fd] : fd \in DOMAIN hooks.OPEN_FILES}
        \cup {[word |-> NotAnFd, fd |-> fd] :
                  fd \in hooks.kernel \ DOMAIN hooks.OPEN_FILES}

\* fread_detour(out_buffer, element_size, number_of_elements, file_stream),
\* the whole call: fileno_detour, which calls FN_FILENO for a stream whose
\* first word is not in OPEN_FILES, then as read_detour
fread_detour(element_size, number_of_elements, file_stream) ==
    LET args == <<element_size, number_of_elements, file_stream>>
        managed == file_stream.word \in DOMAIN hooks.OPEN_FILES
        fd == IF managed THEN file_stream.word ELSE file_stream.fd
        fileno == IF managed THEN <<>>
                  ELSE <<Original("FN_FILENO", <<file_stream>>)>>
        count == element_size * number_of_elements
    IN  IF fd \in DOMAIN hooks.OPEN_FILES
            THEN LET remote_fd == hooks.OPEN_FILES[fd]
                     answer == agent_read(hooks.remote_files[remote_fd], count)
                 IN  hook_returns([detour |-> "fread", args |-> args,
                                   original |-> fileno,
                                   sent |-> <<Request("Read", remote_fd, count)>>,
                                   ret |-> answer.ret],
                                  hooks.OPEN_FILES, hooks.kernel,
                                  [hooks.remote_files EXCEPT ![remote_fd] = answer.file])
            ELSE hook_bypasses("fread", args,
                               fileno \o <<Original("FN_FREAD", args)>>, 0)

\* lseek_detour(fd, offset, whence) that forwards every whence
lseek_detour_AnyWhence(fd, offset, whence) ==
    LET args == <<fd, offset, whence>>
    IN  IF fd \in DOMAIN hooks.OPEN_FILES
            THEN LET remote_fd == hooks.OPEN_FILES[fd]
                     seek_from ==
                         CASE whence = SEEK_SET -> [from |-> "Start", offset |-> offset]
                           [] whence = SEEK_CUR -> [from |-> "Current", offset |-> offset]
                           [] OTHER -> [from |-> "End", offset |-> offset]
                 IN  hook_forwards("lseek", args,
                                   Request("Seek", remote_fd, seek_from),
                                   agent_seek(hooks.remote_files[remote_fd], seek_from))
            ELSE hook_bypasses("lseek", args, <<Original("FN_LSEEK", args)>>, 0)

\* lseek_detour(fd, offset, whence)
lseek_detour(fd, offset, whence) ==
    LET args == <<fd, offset, whence>>
    IN  IF fd \in DOMAIN hooks.OPEN_FILES
            THEN IF whence \notin {SEEK_SET, SEEK_CUR, SEEK_END}
                     THEN hook_bypasses("lseek", args, <<>>, -1)
                     ELSE LET remote_fd == hooks.OPEN_FILES[fd]
                              seek_from ==
                                  CASE whence = SEEK_SET ->
                                           [from |-> "Start", offset |-> offset]
                                    [] whence = SEEK_CUR ->
                                           [from |-> "Current", offset |-> offset]
                                    [] whence = SEEK_END ->
                                           [from |-> "End", offset |-> offset]
                          IN  hook_forwards("lseek", args,
                                  Request("Seek", remote_fd, seek_from),
                                  agent_seek(hooks.remote_files[remote_fd], seek_from))
            ELSE hook_bypasses("lseek", args, <<Original("FN_LSEEK", args)>>, 0)

\* write_detour(fd, buffer, count) that goes to the original for a null buffer
write_detour_NullToOriginal(fd, buffer, count) ==
    LET args == <<fd, buffer, count>>
    IN  IF fd \in DOMAIN hooks.OPEN_FILES /\ buffer # "null"
            THEN LET remote_fd == hooks.OPEN_FILES[fd]
                 IN  hook_forwards("write", args,
                                   Request("Write", remote_fd, count),
                                   agent_write(hooks.remote_files[remote_fd], count))
            ELSE hook_bypasses("write", args, <<Original("FN_WRITE", args)>>,
                               IF buffer = "null" THEN -1 ELSE count)

\* write_detour(fd, buffer, count)
write_detour(fd, buffer, count) ==
    LET args == <<fd, buffer, count>>
    IN  IF fd \in DOMAIN hooks.OPEN_FILES
            THEN IF buffer = "null"
                     THEN hook_bypasses("write", args, <<>>, -1)
                     ELSE LET remote_fd == hooks.OPEN_FILES[fd]
                          IN  hook_forwards("write", args,
                                  Request("Write", remote_fd, count),
                                  agent_write(hooks.remote_files[remote_fd], count))
            ELSE hook_bypasses("write", args, <<Original("FN_WRITE", args)>>,
                               IF buffer = "null" THEN -1 ELSE count)

\* the flags of an open
O_RDWR == 2
\* the fds a caller passes to a detour
CallerFds == HookFds
\* the counts and the offsets a caller passes
Counts == 0 .. MaxHookCount
Offsets == -1 .. MaxHookCount

\* the layer has started in a process that has one local file open
InitHooks ==
    /\ hooks = [NoHooks EXCEPT !.kernel = {1}]
    /\ processes = [p \in ProcessIds |-> NoProcess]
    /\ detours = [t \in ThreadIds |-> NoDetour]
    /\ InitBesideLayer

NextHooks ==
    \/ \E raw_path \in HookPaths, found \in BOOLEAN :
           open_detour(raw_path, O_RDWR, found, MaxHookCount)
    \/ \E fd \in CallerFds \cup {AT_FDCWD}, raw_path \in HookPaths,
          found \in BOOLEAN :
           openat_detour(fd, raw_path, O_RDWR, found, MaxHookCount)
    \/ \E fd \in CallerFds, count \in Counts : read_detour_call(fd, count)
    \/ \E element_size \in Counts \ {0}, file_stream \in Streams :
           fread_detour(element_size, 1, file_stream)
    \/ \E fd \in CallerFds, offset \in Offsets, whence \in Whences :
           lseek_detour(fd, offset, whence)
    \/ \E fd \in CallerFds, buffer \in {"null", "bytes"}, count \in Counts :
           write_detour(fd, buffer, count)

SpecHooks == InitHooks /\ [][NextHooks]_vars

\* a step in which a detour was called, and what the call did
HookCalled == hooks'.calls = hooks.calls + 1
\* the local fd that a call of read, fread, lseek or write is about
FdOf(last) == IF last.detour = "fread" THEN last.args[3].fd ELSE last.args[1]
\* the original libc function of a detour
FnOf(detour) ==
    CASE detour = "read" -> "FN_READ"
      [] detour = "fread" -> "FN_FREAD"
      [] detour = "lseek" -> "FN_LSEEK"
      [] detour = "write" -> "FN_WRITE"
\* a call of read, fread, lseek or write
DataCalled == HookCalled /\ hooks'.last.detour \in {"read", "fread", "lseek", "write"}
\* the arguments of the call are the ones the detour forwards: lseek with
\* SEEK_SET, SEEK_CUR or SEEK_END, write with a buffer that is not null
ValidArgs(last) ==
    /\ last.detour = "lseek" => last.args[3] \in {SEEK_SET, SEEK_CUR, SEEK_END}
    /\ last.detour = "write" => last.args[2] # "null"
\* the call went to the original libc function with the arguments of the
\* caller, and sent nothing
Bypassed(last) ==
    /\ last.sent = <<>>
    /\ \E i \in 1 .. Len(last.original) :
           last.original[i] = Original(FnOf(last.detour), last.args)
\* the call sent one request, with the remote fd that OPEN_FILES has for the
\* local fd, and called no original function
Forwarded(last) ==
    /\ Len(last.sent) = 1
    /\ last.sent[1].remote_fd = hooks.OPEN_FILES[FdOf(last)]
    /\ last.original = <<>>

\* C32 as stated: read, fread, write and lseek on a local fd that is not in
\* OPEN_FILES call the original function with the arguments of the caller
\* and send nothing; on a managed fd they send exactly one request with the
\* remote fd of that local fd and never call the original
C32_ManagedSendsExactlyOne ==
    [][DataCalled =>
          IF FdOf(hooks'.last) \in DOMAIN hooks.OPEN_FILES
              THEN Forwarded(hooks'.last)
              ELSE Bypassed(hooks'.last)]_vars

\* C32, amended: on a fd that is not in OPEN_FILES the original function is
\* called with the arguments of the caller and nothing is sent; on a
\* managed fd the original is never called, and exactly one request with
\* the remote fd of that local fd is sent unless lseek has a whence that is
\* not SEEK_SET, SEEK_CUR or SEEK_END or write has a null buffer: then
\* nothing is sent and the call returns -1
C32_ManagedSendsOneForValidArgs ==
    [][DataCalled =>
          LET last == hooks'.last
          IN  IF FdOf(last) \in DOMAIN hooks.OPEN_FILES
                  THEN IF ValidArgs(last) THEN Forwarded(last)
                       ELSE /\ last.sent = <<>>
                            /\ last.original = <<>>
                            /\ last.ret = -1
                  ELSE Bypassed(last)]_vars

\* fread on the stream of a remote file has sent one Read request with the
\* remote fd of the stream, called no original function, and the cursor of
\* the file of the agent has moved
C32_Witness ==
    /\ hooks.last.detour = "fread"
    /\ FdOf(hooks.last) \in DOMAIN hooks.OPEN_FILES
    /\ hooks.last.sent =
           <<Request("Read", hooks.OPEN_FILES[FdOf(hooks.last)], MaxHookCount)>>
    /\ hooks.last.original = <<>>
    /\ hooks.remote_files[hooks.OPEN_FILES[FdOf(hooks.last)]].offset = MaxHookCount

\* the files of the agent that the step has changed
ChangedFiles ==
    {r \in RemoteFds : hooks'.remote_files[r] # hooks.remote_files[r]}

\* C33: lseek on a managed fd with a whence other than SEEK_SET, SEEK_CUR
\* and SEEK_END returns -1 and sends no request, and write on a managed fd
\* with a null buffer returns -1 and sends no request; with valid arguments
\* exactly one Seek or Write request is sent, and a file of the agent
\* changes only in a call that sends a request, and only the file of that
\* request
C33_InvalidArgsSendNothing ==
    [][HookCalled =>
          LET last == hooks'.last
              managed == FdOf(last) \in DOMAIN hooks.OPEN_FILES
          IN  /\ (last.detour \in {"lseek", "write"} /\ managed) =>
                     IF ValidArgs(last)
                         THEN /\ Len(last.sent) = 1
                              /\ last.sent[1].kind =
                                     (IF last.detour = "lseek" THEN "Seek" ELSE "Write")
                              /\ last.sent[1].remote_fd = hooks.OPEN_FILES[FdOf(last)]
                         ELSE /\ last.ret = -1
                              /\ last.sent = <<>>
                              /\ ChangedFiles = {}
              /\ ChangedFiles # {} =>
                     /\ Len(last.sent) = 1
                     /\ ChangedFiles = {last.sent[1].remote_fd}]_vars

\* lseek with a whence that libc does not know has returned -1 on a remote
\* file whose cursor an earlier call had moved
C33_Witness ==
    /\ hooks.last.detour = "lseek"
    /\ FdOf(hooks.last) \in DOMAIN hooks.OPEN_FILES
    /\ hooks.last.args[3] \notin {SEEK_SET, SEEK_CUR, SEEK_END}
    /\ hooks.last.ret = -1
    /\ hooks.last.sent = <<>>
    /\ hooks.remote_files[hooks.OPEN_FILES[FdOf(hooks.last)]].offset > 0

\* a call of open or openat, its path and its directory fd
OpenCalled == HookCalled /\ hooks'.last.detour \in {"open", "openat"}
PathOf(last) == IF last.detour = "open" THEN last.args[1] ELSE last.args[2]
DirFdOf(last) == IF last.detour = "open" THEN AT_FDCWD ELSE last.args[1]
\* the call has opened the path locally: through FN_OPEN or FN_OPENAT with
\* the path of the caller, with nothing sent
OpenedLocally(last) ==
    /\ last.sent = <<>>
    /\ \/ last.original = <<Original("FN_OPEN", <<PathOf(last), O_RDWR>>)>>
       \/ last.original = <<Original("FN_OPENAT", last.args)>>
\* what open_detour does with the path, whoever calls it
AsOpen(last) ==
    /\ PathOf(last).utf8 /\ PathOf(last).ignored =>
           /\ last.sent = <<>>
           /\ last.original = <<Original("FN_OPEN", <<PathOf(last), O_RDWR>>)>>
    /\ PathOf(last).utf8 /\ ~PathOf(last).ignored =>
           /\ last.sent = <<Request("Open", 0, PathOf(last))>>
           /\ last.original = <<>>
    /\ ~PathOf(last).utf8 =>
           last.sent = <<>> /\ last.original = <<>> /\ last.ret = -1

\* the policy of the paths that are sent: a path goes to the agent only if
\* it is absolute and not ignored, or relative with a managed directory fd
\* of openat; an absolute path of openat is handled as open handles it
SentByPolicy ==
    LET last == hooks'.last
        path == PathOf(last)
        managed == /\ last.detour = "openat"
                   /\ DirFdOf(last) \in DOMAIN hooks.OPEN_FILES
    IN  /\ last.sent # <<>> =>
               \/ path.absolute /\ ~path.ignored
               \/ ~path.absolute /\ managed
        /\ (last.detour = "openat" /\ path.absolute) => AsOpen(last)

\* the parts of C34 about the paths that are sent to the agent
C34_SentByPolicy == [][OpenCalled => SentByPolicy]_vars

\* C34: a path is sent to the agent only if it is absolute and does not
\* match the ignore pattern, or it is relative and the directory fd of
\* openat is a managed fd; a relative path given to open, to openat with
\* AT_FDCWD or to openat with an unmanaged directory fd is always opened
\* locally; an absolute path given to openat is handled as open handles it,
\* whatever the directory fd is
C34_PathPolicy ==
    [][OpenCalled =>
          LET last == hooks'.last
              path == PathOf(last)
              managed == /\ last.detour = "openat"
                         /\ DirFdOf(last) \in DOMAIN hooks.OPEN_FILES
          IN  /\ SentByPolicy
              /\ (~path.absolute /\ ~managed) => OpenedLocally(last)]_vars

\* openat has sent OpenRelative with the remote fd of its directory fd for
\* a relative path
C34_SentRelative ==
    /\ hooks.last.detour = "openat"
    /\ ~PathOf(hooks.last).absolute
    /\ Len(hooks.last.sent) = 1
    /\ hooks.last.sent[1].kind = "OpenRelative"
    /\ hooks.last.sent[1].remote_fd \in RemoteFds

(***************************************************************************)
(* close and open of remote files by the threads of one process            *)
(* (layer/src/lib.rs, close_detour, close_layer_fd, uv_fs_close_detour).   *)
(* The kernel gives the lowest free number to a new descriptor, so the     *)
(* number of a closed descriptor is the number of the next one.            *)
(* hooks.placeholders has, for each descriptor that an open of a remote    *)
(* file has put into OPEN_FILES and that no thread has closed or begun to  *)
(* close since, the remote fd it was inserted with; hooks.held has the     *)
(* descriptors that a call has returned to the application and that it     *)
(* has not passed to close: the ones a thread may close.                   *)
(***************************************************************************)

\* a step of thread t in close or open
hook_thread_step(t, thread, kernel_after, open_files_after, placeholders_after) ==
    /\ hooks' = [hooks EXCEPT !.threads[t] = thread,
                              !.kernel = kernel_after,
                              !.OPEN_FILES = open_files_after,
                              !.placeholders = placeholders_after,
                              !.held = @ \cup DOMAIN placeholders_after]
    /\ UNCHANGED <<processes, detours>>
    /\ UNCHANGED beside_layer

\* a thread starts to close a descriptor that the application holds
thread_calls(t, thread, kernel_after, open_files_after, placeholders_after) ==
    /\ hooks.threads[t].pc = "idle"
    /\ hooks.calls < MaxCloseCalls
    /\ thread.fd \in hooks.held
    /\ hooks' = [hooks EXCEPT !.threads[t] = thread,
                              !.calls = @ + 1,
                              !.kernel = kernel_after,
                              !.OPEN_FILES = open_files_after,
                              !.placeholders = placeholders_after,
                              !.held = @ \ {thread.fd}]
    /\ UNCHANGED <<processes, detours>>
    /\ UNCHANGED beside_layer

\* open_detour with a remote path, ops::open: the Open request is sent and
\* the agent answers with a new remote fd
open_requested(t) ==
    /\ hooks.threads[t].pc = "idle"
    /\ hooks.calls < MaxCloseCalls
    /\ hooks' = [hooks EXCEPT
                    !.threads[t] = [pc |-> "opened", fd |-> 0,
                                    remote_fd |-> NextRemoteFd],
                    !.calls = @ + 1,
                    !.remote_files = insert(@, NextRemoteFd, RemoteFile(0))]
    /\ UNCHANGED <<processes, detours>>
    /\ UNCHANGED beside_layer

\* ops::open: the local descriptor that stands for the remote file
open_allocates(t) ==
    /\ hooks.threads[t].pc = "opened"
    /\ FreeFds # {}
    /\ hook_thread_step(t, [hooks.threads[t] EXCEPT !.pc = "allocated", !.fd = LowestFree],
                   hooks.kernel \cup {LowestFree}, hooks.OPEN_FILES,
                   hooks.placeholders)

\* ops::open: OPEN_FILES.insert(local_fd, remote_fd); open returns local_fd
open_inserts(t) ==
    /\ hooks.threads[t].pc = "allocated"
    /\ hook_thread_step(t, NoHookThread, hooks.kernel,
                   insert(hooks.OPEN_FILES, hooks.threads[t].fd,
                          hooks.threads[t].remote_fd),
                   insert(hooks.placeholders, hooks.threads[t].fd,
                          hooks.threads[t].remote_fd))

\* close_detour(fd): `let res = FN_CLOSE(fd);` the kernel closes the
\* descriptor and its number is free
close_detour(t, fd) ==
    thread_calls(t, [pc |-> "close_layer_fd", fd |-> fd, remote_fd |-> 0],
                 hooks.kernel \ {fd}, hooks.OPEN_FILES,
                 remove(hooks.placeholders, fd))

\* close_layer_fd(fd), then close_detour returns res: the fd is taken out
\* of SOCKETS, or else out of OPEN_FILES
close_layer_fd_removes(t) ==
    /\ hooks.threads[t].pc = "close_layer_fd"
    /\ LET fd == hooks.threads[t].fd
       IN  /\ hooks' =
                  [hooks EXCEPT
                      !.threads[t] = NoHookThread,
                      !.SOCKETS = @ \ {fd},
                      !.OPEN_FILES =
                          IF fd \notin hooks.SOCKETS THEN remove(@, fd) ELSE @]
    /\ UNCHANGED <<processes, detours>>
    /\ UNCHANGED beside_layer

\* uv_fs_close_detour(a, b, fd, c): close_layer_fd(fd) first
uv_fs_close_detour(t, fd) ==
    thread_calls(t, [pc |-> "FN_UV_FS_CLOSE", fd |-> fd, remote_fd |-> 0],
                 hooks.kernel,
                 IF fd \notin hooks.SOCKETS THEN remove(hooks.OPEN_FILES, fd)
                 ELSE hooks.OPEN_FILES,
                 remove(hooks.placeholders, fd))

\* uv_fs_close_detour: FN_UV_FS_CLOSE(a, b, fd, c) closes the descriptor
FN_UV_FS_CLOSE(t) ==
    /\ hooks.threads[t].pc = "FN_UV_FS_CLOSE"
    /\ LET fd == hooks.threads[t].fd
       IN  /\ hooks' =
                  [hooks EXCEPT
                      !.threads[t] = NoHookThread,
                      !.SOCKETS = @ \ {fd},
                      !.kernel = @ \ {fd}]
    /\ UNCHANGED <<processes, detours>>
    /\ UNCHANGED beside_layer

\* the layer has started with the fs feature in a process that has one
\* local descriptor open, which is a socket of the layer or not
InitClose ==
    /\ \E sockets \in SUBSET {1} :
           hooks = [NoHooks EXCEPT !.kernel = {1}, !.SOCKETS = sockets,
                                   !.held = {1}]
    /\ processes = [p \in ProcessIds |-> NoProcess]
    /\ detours = [t \in ThreadIds |-> NoDetour]
    /\ InitBesideLayer

NextClose ==
    \/ \E t \in ThreadIds : open_requested(t)
    \/ \E t \in ThreadIds : open_allocates(t)
    \/ \E t \in ThreadIds : open_inserts(t)
    \/ \E t \in ThreadIds, fd \in HookFds : close_detour(t, fd)
    \/ \E t \in ThreadIds : close_layer_fd_removes(t)
    \/ \E t \in ThreadIds, fd \in HookFds : uv_fs_close_detour(t, fd)
    \/ \E t \in ThreadIds : FN_UV_FS_CLOSE(t)

SpecClose == InitClose /\ [][NextClose]_vars

\* C38: an entry that a thread has put into OPEN_FILES for a descriptor it
\* has just obtained stays in the table, with its remote fd, until that
\* descriptor is closed: the late removal of a close of an earlier
\* descriptor with the same number does not take it out
C38_EntryStaysUntilClosed ==
    \A fd \in DOMAIN hooks.placeholders :
        /\ fd \in DOMAIN hooks.OPEN_FILES
        /\ hooks.OPEN_FILES[fd] = hooks.placeholders[fd]

(***************************************************************************)
(* The start of the layer in the processes of an application               *)
(* (layer/src/lib.rs, layer_pre_initialization, layer_start,               *)
(* load_only_layer_start).  A process that the application starts with     *)
(* exec inherits the environment, loads the layer anew and starts it       *)
(* according to its load type; a forked child is a copy of its parent.     *)
(***************************************************************************)

\* the features that need the agent
AgentFeatures == {"fs", "dns", "incoming", "outgoing_tcp", "outgoing_udp"}
\* the name of the marker variable
REMOTE_ENV_FETCHED == "MIRRORD_REMOTE_ENV_FETCHED"
\* the values the variable MIRRORD_LAYER_TRACE_ONLY has at the launch
TraceOnlyValues == {"", "true", "false"}

\* std::env::var(NAME).unwrap_or_default().parse().unwrap_or(false)
parse_bool(value) == value = "true"

\* what the start of the layer made of process c
started(c, process) ==
    /\ processes[c].state = "loading"
    /\ processes' = [processes EXCEPT ![c] = process]
    /\ UNCHANGED <<detours, hooks>>
    /\ UNCHANGED beside_layer

\* the rest of layer_start after the hooks are enabled, when the layer is
\* not in trace only mode: the connection, the remote environment when it
\* has to be fetched, with the marker, and the variables that are unset
layer_start_connected(process, connected) ==
    LET config == process.env.config
        fetch_env == /\ config.load_from_process
                     /\ ~parse_bool(process.env.MIRRORD_REMOTE_ENV_FETCHED)
        marked == IF fetch_env THEN "true"
                  ELSE process.env.MIRRORD_REMOTE_ENV_FETCHED
    IN  IF ~connected
            THEN [process EXCEPT !.state = "terminated"]
            ELSE [process EXCEPT
                     !.state = "app",
                     !.PROXY_CONNECTION = NextObject,
                     !.objects = (NextObject :>
                                     [ProxyConnection_new("127.0.0.1:5000", New,
                                                          NextObject)
                                         EXCEPT !.used = fetch_env]),
                     !.fetches = IF fetch_env THEN @ + 1 ELSE @,
                     !.env.MIRRORD_REMOTE_ENV_FETCHED =
                         IF REMOTE_ENV_FETCHED \in config.unset THEN "" ELSE marked]

\* layer_start that connects to the proxy whatever the mode is
layer_start_ConnectsAlways(c, connected) ==
    LET trace_only == parse_bool(processes[c].env.MIRRORD_LAYER_TRACE_ONLY)
        features == IF trace_only THEN {}
                    ELSE processes[c].env.config.features
        hooked == [processes[c] EXCEPT !.hooked = TRUE, !.hooked_with = features,
                                       !.fs_active = "fs" \in features]
    IN  /\ processes[c].load_type = "Full"
        /\ started(c, layer_start_connected(hooked, connected))

\* layer_start(config): in trace only mode the features that need the agent
\* are taken out of the configuration; the hooks are enabled for the
\* configuration; in trace only mode the start ends here, without a
\* connection
layer_start(c, connected) ==
    LET trace_only == parse_bool(processes[c].env.MIRRORD_LAYER_TRACE_ONLY)
        features == IF trace_only THEN {}
                    ELSE processes[c].env.config.features
        hooked == [processes[c] EXCEPT !.hooked = TRUE, !.hooked_with = features,
                                       !.fs_active = "fs" \in features]
    IN  /\ processes[c].load_type = "Full"
        /\ started(c, IF trace_only THEN [hooked EXCEPT !.state = "app"]
                      ELSE layer_start_connected(hooked, connected))

\* load_only_layer_start(config) in a process that skips the layer: no
\* hooks; a connection unless the layer is in trace only mode
load_only(c, connected) ==
    LET trace_only == parse_bool(processes[c].env.MIRRORD_LAYER_TRACE_ONLY)
    IN  /\ processes[c].load_type = "Skip"
        /\ started(c,
              IF trace_only THEN [processes[c] EXCEPT !.state = "app"]
              ELSE IF ~connected THEN [processes[c] EXCEPT !.state = "terminated"]
              ELSE [processes[c] EXCEPT
                       !.state = "app",
                       !.PROXY_CONNECTION = NextObject,
                       !.objects = (NextObject :>
                                       ProxyConnection_new("127.0.0.1:5000", New,
                                                           NextObject))])

\* the application starts a program in a new process, which inherits the
\* environment; the layer is loaded into it with the load type of the program
spawn(p, load_type) ==
    /\ processes[p].state = "app"
    /\ processes[p].forks < MaxSpawns
    /\ FreePids # {}
    /\ processes' =
           [processes EXCEPT
               ![p].forks = @ + 1,
               ![NextPid] = [NoProcess EXCEPT
                                !.state = "loading",
                                !.parent = p,
                                !.env = processes[p].env,
                                !.load_type = load_type]]
    /\ UNCHANGED <<detours, hooks>>
    /\ UNCHANGED beside_layer

\* the configurations of a run
StartConfigs ==
    [features : {AgentFeatures, {"fs"}},
     load_from_process : BOOLEAN,
     unset : {{}, {REMOTE_ENV_FETCHED}}]

\* the first process of the application is launched
InitStart ==
    /\ \E value \in TraceOnlyValues, config \in StartConfigs,
          load_type \in {"Full", "Skip"} :
           processes =
               [p \in ProcessIds |->
                   IF p = 1
                   THEN [NoProcess EXCEPT
                            !.state = "loading",
                            !.env = [MIRRORD_LAYER_TRACE_ONLY |-> value,
                                     MIRRORD_REMOTE_ENV_FETCHED |-> "",
                                     config |-> config],
                            !.load_type = load_type]
                   ELSE NoProcess]
    /\ detours = [t \in ThreadIds |-> NoDetour]
    /\ hooks = NoHooks
    /\ InitBesideLayer

NextStart ==
    \/ \E c \in ProcessIds, connected \in BOOLEAN : layer_start(c, connected)
    \/ \E c \in ProcessIds, connected \in BOOLEAN : load_only(c, connected)
    \/ \E p \in ProcessIds, load_type \in {"Full", "Skip"} : spawn(p, load_type)
    \/ \E p \in ProcessIds, forked \in BOOLEAN : fork_detour(p, forked)
    \/ \E c \in ProcessIds, connected \in BOOLEAN :
          fork_detour_child(c, connected, FALSE)

SpecStart == InitStart /\ [][NextStart]_vars

\* the layer of process p is in trace only mode
TraceOnly(p) ==
    /\ processes[p].state # "none"
    /\ parse_bool(processes[p].env.MIRRORD_LAYER_TRACE_ONLY)

\* C35: with MIRRORD_LAYER_TRACE_ONLY set to true the layer makes no proxy
\* connection: none at the full start, none at the load-only start and none
\* in a forked child, and the hooks of a process are installed with the
\* features that need the agent switched off
C35_TraceOnlyNeverConnects ==
    \A p \in ProcessIds :
        TraceOnly(p) =>
            /\ processes[p].PROXY_CONNECTION = 0
            /\ processes[p].objects = <<>>
            /\ processes[p].hooked =>
                   processes[p].hooked_with \cap AgentFeatures = {}

\* in trace only mode a process that started in full, with its hooks, has
\* forked a child that returned from the fork detour, and has started a
\* program that skips the layer
C35_Witness ==
    \E p, c, d \in ProcessIds :
        /\ TraceOnly(p) /\ processes[p].hooked /\ processes[p].load_type = "Full"
        /\ c # d
        /\ processes[p].res = c
        /\ processes[c].parent = p /\ processes[c].state = "app"
        /\ processes[d].parent = p /\ processes[d].state = "app"
        /\ processes[d].load_type = "Skip"
        /\ processes[p].env.config.features = AgentFeatures

\* the fetches of the remote environment in the tree of processes
RECURSIVE FetchesOf(_)
FetchesOf(pids) ==
    IF pids = {} THEN 0
    ELSE LET p == CHOOSE q \in pids : TRUE
         IN  processes[p].fetches + FetchesOf(pids \ {p})

\* C36: within one tree of processes the remote environment is fetched at
\* most once: a process has fetched it only with load_from_process enabled,
\* and the marker MIRRORD_REMOTE_ENV_FETCHED is true in a process that
\* fetched it, for its descendants to inherit
C36_FetchedOncePerTree ==
    /\ FetchesOf(ProcessIds) <= 1
    /\ \A p \in ProcessIds :
           processes[p].fetches > 0 =>
               /\ processes[p].env.config.load_from_process
               /\ parse_bool(processes[p].env.MIRRORD_REMOTE_ENV_FETCHED)

\* two programs that a process without the layer started have both fetched
\* the remote environment
C36_FetchedTwice ==
    \E c, d \in ProcessIds :
        /\ c # d
        /\ processes[c].fetches = 1 /\ processes[d].fetches = 1
        /\ processes[c].parent = 1 /\ processes[d].parent = 1
        /\ processes[1].load_type = "Skip"
        /\ processes[1].env.config.unset = {}

(***************************************************************************)
(* A client's queued commands and the detection of its closure             *)
(***************************************************************************)
\* the sniffer has handled the closure of client c: the client dropped its
\* api, its NewClient command was handled and its closure was taken from
\* clients_closed
ClosureHandled(c) ==
    /\ api[c] = "dropped"
    /\ c \notin clients_closed
    /\ \A i \in 1 .. Len(command_rx) :
           ~(command_rx[i].client_id = c /\ command_rx[i].command = "NewClient")

\* client c is subscribed to a port
Subscriber(c) ==
    \E port \in DOMAIN port_subscriptions : c \in port_subscriptions[port]

\* C37: once the sniffer has handled the closure of a client, the
\* subscription table holds no subscription of that client, whatever
\* commands of the client were still in the queue at that time
C37_ClosedClientNotSubscribed ==
    \A c \in ClientIds : ClosureHandled(c) => ~Subscriber(c)

\* the closure of a client was handled while its Subscribe command was in
\* the queue, and the command was handled after it: the client is
\* subscribed, its port is in the filter, and no command is left
C37_SubscribedAfterClosure ==
    \E c \in ClientIds :
        /\ ClosureHandled(c)
        /\ command_rx = <<>>
        /\ status = "running"
        /\ \E port \in get_subscribed_topics(port_subscriptions) :
               /\ port_subscriptions[port] = {c}
               /\ filter = update_packet_filter(port_subscriptions)

\* C39: a call of GetDEnts64 returns zero entries only when `.`, `..` and
\* every child were returned by the calls before it on that id: when the
\* next entry does not fit in buffer_size the call does not answer with an
\* empty success
C39_EmptyOnlyAtEnd ==
    [][(GetDEnts64Ok /\ result'.entries = <<>>)
          => StillToCome(returned'.request.fd, WithParentIfAny) = <<>>]_vars

\* a call whose buffer_size is smaller than the record of `..` was answered
\* with an empty success, and the stream stays at `..`
C39_StuckAtEntry ==
    /\ returned.request.kind = "GetDEnts64"
    /\ result.is = "Ok"
    /\ result.entries = <<>>
    /\ returned.request.n = 3
    /\ returned.request.fd \in DOMAIN getdents_streams
    /\ Remaining(getdents_streams[returned.request.fd]) # <<>>
    /\ next_entry(getdents_streams[returned.request.fd]).name = ".."

(***************************************************************************)
(* Relative: the requests that name a directory id and a pathname          *)
(***************************************************************************)
\* the kinds of request that join a pathname to the path of a directory id
RelativeKinds == {"OpenRelative", "MakeDirAt", "UnlinkAt"}
\* the pathnames of the requests: plain, with `..` components, absolute
RelativePaths ==
    {<<"f">>, <<"d", "x">>, <<"..", "f">>, <<"..", "..", "..">>,
     <<"/", "proc">>, <<"/", "d">>}

RelativeRequests ==
    {OnPath("Open", path) : path \in {<<"/">>, <<"/", "d">>}}
    \cup {[OnFd(kind, fd) EXCEPT !.path = path] :
             kind \in RelativeKinds, fd \in {0, 1}, path \in RelativePaths}

InitRelative == InitDirs

NextRelative == \E request \in RelativeRequests : file_request(request)

SpecRelative == InitRelative /\ [][NextRelative]_vars

\* the last request named a directory id and a pathname, and succeeded
RelativeOk ==
    /\ returned.request.kind \in RelativeKinds
    /\ returned.request.has_fd
    /\ result.is = "Ok"

\* the location on the host that the system call of the last request reached
RelativeLocation ==
    walk(<<"/">>,
         join(open_files[returned.request.fd].path, returned.request.path),
         MaxFollow)

\* C40: an OpenRelative, MakeDirAt or UnlinkAt whose pathname is absolute or
\* has `..` components fails, or reaches a location under the root path of
\* the target
C40_RelativeInsideRoot ==
    RelativeOk => Inside(RelativeLocation, root_path)

\* an OpenRelative on the id of the target's root directory with a pathname
\* of `..` components has opened a directory of the host above the root
C40_OpenedAboveRoot ==
    /\ RelativeOk
    /\ returned.request.kind = "OpenRelative"
    /\ returned.request.path = <<"..", "..", "..">>
    /\ open_files[returned.request.fd].path = root_path
    /\ root_path # <<"/">>
    /\ open_files[result.fd] = RemoteFile_Directory(root_path \o <<"..", "..", "..">>)
    /\ RelativeLocation = <<"/">>

=============================================================================
